---------------------------- MODULE Spec2Model ----------------------------
(***************************************************************************)
(* Model of the interactive session engine of AI_CLI (src/main.py): the    *)
(* ChatUI object, the key loop of chat_ui, and the background request      *)
(* threads started by ChatUI.send_message.                                 *)
(*                                                                         *)
(* Text is modelled as a sequence of Unicode code points, so chr(key) is   *)
(* the key code itself and every string constant of the source is the      *)
(* tuple of its code points.  Handlers of the source are operators from a  *)
(* record of the object's fields to the record after the call, so that     *)
(* the sequential composition of the source (handle_command followed by    *)
(* exit_command_mode, say) is composition of operators.  One TLA+ action   *)
(* is one key event of the loop, or one step of a background thread.       *)
(*                                                                         *)
(* Specifications: Spec (the session with its threads), SpecInput (the     *)
(* foreground over whole rounds), SpecEdit (the two buffers), SpecCommand  *)
(* (command lines), SpecStream (one streamed response), SpecSend (file     *)
(* tags in submitted messages), SpecWindow (the context window),           *)
(* SpecHistory (saving, loading and purging conversations), SpecRedraw     *)
(* (the redraw throttle), SpecFailure (failing requests), SpecSelector     *)
(* (the three selectors), SpecRecall (the recall of sent messages),        *)
(* SpecSubmit (what Enter records), SpecMode (the two modes), SpecDecode   *)
(* (the two copies of the key decoder), SpecStartup (config.txt and the    *)
(* command line), SpecDialect (the two dialects of a response), SpecLive  *)
(* (requests under fair scheduling), SpecSwitch (the provider switched     *)
(* while a request is in flight), SpecLoad (conversations loaded from      *)
(* HISTORY_DIR), SpecConfirm (the file selector on a disk with an empty    *)
(* directory) and SpecClear (the placeholder table: file, clear, load).    *)
(***************************************************************************)
EXTENDS Integers, Sequences, FiniteSets, TLC

VARIABLES
    messages,            \* self.messages: the ConversationLog
    input_history,       \* self.input_history: RecallHistory, newest first
    history_index,       \* self.history_index: recall index, -1 = not browsing
    current_input,       \* self.current_input: main buffer text
    cursor_pos,          \* self.cursor_pos
    file_placeholders,   \* self.file_placeholders: <<placeholder, path>> pairs in insertion order
    command_mode,        \* self.command_mode
    command_input,       \* self.command_input
    command_cursor_pos,  \* self.command_cursor_pos
    saved_input,         \* self.saved_input
    saved_cursor_pos,    \* self.saved_cursor_pos
    current_config,      \* self.current_config
    configs,             \* self.configs
    threads,             \* the background threads started by send_message
    history_dir,         \* the files of HISTORY_DIR: name -> content
    pending,             \* key codes waiting in the terminal's input queue
    now,                 \* time.time(), in milliseconds since the session began
    last_redraw_time,    \* self.last_redraw_time, in the same unit
    drawn,               \* what the full-redraw requests of the last step did
    args,                \* args of __main__: the provider and the model of the command line
    selector,            \* the selector that is open, or NoneVal
    running,             \* the while-loop of chat_ui has not left
    escaped,             \* the exception that escaped the key loop, or NoExc
    last,                \* observation: the last step (what ran, on what)
    entry                \* observation: the state when command mode was entered

vars == <<messages, input_history, history_index, current_input, cursor_pos,
          file_placeholders, command_mode, command_input, command_cursor_pos,
          saved_input, saved_cursor_pos, current_config, configs, threads, args,
          history_dir, pending, now, last_redraw_time, drawn, selector, running,
          escaped, last, entry>>

-----------------------------------------------------------------------------
(* Key codes (curses) and program constants.                                *)

KEY_DOWN == 258
KEY_UP == 259
KEY_LEFT == 260
KEY_RIGHT == 261
KEY_BACKSPACE == 263
KEY_ENTER == 343
K_NEWLINE == 10
K_CTRL_L == 12
K_RETURN == 13
K_ESC == 27
K_DEL == 127
MAX_CODEPOINT == 1114111

\* MAX_MESSAGE_LENGTH is 5000 in the source.  The model keeps the code that
\* uses it and scales the number, so that texts longer than the maximum are
\* within reach of a few key events and deltas.
MAX_MESSAGE_LENGTH == 12

\* Python's None and a value that is not None: an optional value is a
\* sequence of no or one element.
NoneVal == <<>>
Some(x) == <<x>>
NoExc == "NoExc"

\* "\n...(response too long, truncated)" of send_openai_request / send_curl_request
RESPONSE_TRUNCATED ==
    <<10, 46, 46, 46, 65288, 21709, 24212, 36807, 38271, 65292, 24050, 25130, 26029, 65289>>
\* "\n...(message too long, truncated)" of send_message
MESSAGE_TRUNCATED ==
    <<10, 46, 46, 46, 65288, 28040, 24687, 36807, 38271, 65292, 24050, 25130, 26029, 65289>>
\* " ...(message too long, truncated)" of add_system_message
SYSTEM_TRUNCATED ==
    <<32, 46, 46, 46, 65288, 28040, 24687, 36807, 38271, 65292, 24050, 25130, 26029, 65289>>
\* the placeholder text of the assistant message appended by send_message
THINKING == <<27491, 22312, 24605, 32771, 46, 46, 46>>
\* "<AI returned no valid response>"
NO_VALID_RESPONSE == <<60, 65, 73, 26410, 36820, 22238, 26377, 25928, 21709, 24212, 62>>
\* "unknown command: "
UNKNOWN_COMMAND == <<26410, 30693, 21629, 20196, 58, 32>>
\* "conversation history cleared"
HISTORY_CLEARED == <<23545, 35805, 21382, 21490, 24050, 28165, 38500>>
\* "switched to: "
SWITCHED_TO == <<24050, 20999, 25442, 21040, 58, 32>>
\* "API error: ", "error: ", "network error: ", "parse error: ",
\* "error parsing the response: ", "API response format not compatible"
API_ERROR == <<65, 80, 73, 38169, 35823, 58, 32>>
ERROR_OCCURRED == <<21457, 29983, 38169, 35823, 58, 32>>
NETWORK_ERROR == <<32593, 32476, 38169, 35823, 58, 32>>
PARSE_ERROR == <<35299, 26512, 38169, 35823, 58, 32>>
RESPONSE_PARSE_ERROR == <<35299, 26512, 21709, 24212, 20986, 38169, 58, 32>>
INCOMPATIBLE == <<65, 80, 73, 21709, 24212, 26684, 24335, 19981, 20860, 23481>>
\* "conversation saved to: ", "save failed: ", "load failed: ", "file does not exist: "
SAVED_TO == <<23545, 35805, 24050, 20445, 23384, 21040, 58, 32>>
SAVE_FAILED == <<20445, 23384, 22833, 36133, 58, 32>>
LOAD_FAILED == <<21152, 36733, 22833, 36133, 58, 32>>
FILE_MISSING == <<25991, 20214, 19981, 23384, 22312, 58, 32>>
\* "history loaded: ", "provider: ", ", model: "
LOADED == <<24050, 21152, 36733, 21382, 21490, 35760, 24405, 58, 32>>
PROVIDER_LABEL == <<25552, 20379, 21830, 58, 32>>
MODEL_LABEL == <<44, 32, 27169, 22411, 58, 32>>
\* "really clean all history? (y/n)", "all history cleaned", "clean failed: ",
\* "clean cancelled"
CONFIRM_CLEAN ==
    <<30830, 23450, 35201, 28165, 29702, 25152, 26377, 21382, 21490, 35760, 24405,
      21527, 65311, 40, 121, 47, 110, 41>>
CLEANED == <<25152, 26377, 21382, 21490, 35760, 24405, 24050, 28165, 29702>>
CLEAN_FAILED == <<28165, 29702, 22833, 36133, 58, 32>>
CLEAN_CANCELLED == <<28165, 29702, 25805, 20316, 24050, 21462, 28040>>
\* "{{:F" and "}}"
TAG_OPEN == <<123, 123, 58, 70>>
TAG_CLOSE == <<125, 125>>
\* "\n```file content:", "\n```\n", "[file too large(>1024.0KB): ",
\* "[file does not exist: ", "[error reading file: "
FENCE_OPEN == <<10, 96, 96, 96, 25991, 20214, 20869, 23481, 58>>
FENCE_CLOSE == <<10, 96, 96, 96, 10>>
TOO_LARGE == <<91, 25991, 20214, 36807, 22823, 40, 62, 49, 48, 50, 52, 46, 48, 75, 66, 41, 58, 32>>
NOT_FOUND == <<91, 25991, 20214, 19981, 23384, 22312, 58, 32>>
READ_ERROR == <<91, 35835, 21462, 25991, 20214, 20986, 38169, 58, 32>>
\* the three notices chat_ui appends before the loop
TIP1 == <<25552, 31034, 65306, 22312, 28040, 24687, 20013, 20351, 29992, 32, 123, 123,
          58, 70, 25991, 20214, 21517, 125, 125, 32, 33258, 21160, 25554, 20837,
          25991, 20214, 20869, 23481>>
TIP2 == <<36755, 20837, 32, 102, 105, 108, 101, 32, 36873, 25321, 25991, 20214, 65292,
          112, 114, 111, 118, 105, 100, 101, 114, 32, 20999, 25442, 65, 80, 73,
          65292, 99, 108, 101, 97, 114, 32, 28165, 38500, 21382, 21490, 65292, 101,
          120, 105, 116, 32, 36864, 20986>>
TIP3 == <<36755, 20837, 32, 115, 97, 118, 101, 32, 20445, 23384, 23545, 35805, 65292,
          108, 111, 97, 100, 32, 21152, 36733, 23545, 35805, 65292, 104, 105, 115,
          116, 111, 114, 121, 32, 26597, 30475, 21382, 21490, 35760, 24405>>
\* str(IndexError) of messages[-1] on an empty list, and of [][0]
INDEX_ERROR == <<108, 105, 115, 116, 32, 105, 110, 100, 101, 120, 32, 111, 117, 116, 32,
                 111, 102, 32, 114, 97, 110, 103, 101>>

-----------------------------------------------------------------------------
(* Python string operations on code-point sequences.                        *)

Min(a, b) == IF a < b THEN a ELSE b
Max(a, b) == IF a > b THEN a ELSE b

\* text[a-1:b], the slice of Python, which is empty where text has no
\* character
Slice(text, a, b) ==
    IF Max(a, 1) > Min(b, Len(text)) THEN <<>>
    ELSE SubSeq(text, Max(a, 1), Min(b, Len(text)))

\* text[:n] and text[n:] for 0 <= n
Take(text, n) == SubSeq(text, 1, Min(n, Len(text)))
Drop(text, n) == SubSeq(text, Min(n, Len(text)) + 1, Len(text))

\* text.startswith(prefix)
StartsWith(text, prefix) ==
    /\ Len(prefix) <= Len(text)
    /\ SubSeq(text, 1, Len(prefix)) = prefix

\* text.endswith(suffix)
EndsWith(text, suffix) ==
    /\ Len(suffix) <= Len(text)
    /\ SubSeq(text, Len(text) - Len(suffix) + 1, Len(text)) = suffix

\* the least index >= from at which pattern occurs in text, 0 when none
RECURSIVE FindFrom(_, _, _)
FindFrom(text, pattern, from) ==
    IF from + Len(pattern) - 1 > Len(text) THEN 0
    ELSE IF SubSeq(text, from, from + Len(pattern) - 1) = pattern THEN from
    ELSE FindFrom(text, pattern, from + 1)

\* pattern in text
Contains(text, pattern) == FindFrom(text, pattern, 1) # 0

\* text.replace(old, new), old non-empty: every non-overlapping occurrence,
\* left to right
RECURSIVE Replace(_, _, _)
Replace(text, old, new) ==
    LET i == FindFrom(text, old, 1)
    IN  IF i = 0 THEN text
        ELSE SubSeq(text, 1, i - 1) \o new
             \o Replace(SubSeq(text, i + Len(old), Len(text)), old, new)

\* Python's str.isspace() characters that the model's alphabets contain
IsSpace(c) == c \in {9, 10, 11, 12, 13, 32}

\* text.strip()
RECURSIVE LStrip(_)
LStrip(text) ==
    IF text # <<>> /\ IsSpace(Head(text)) THEN LStrip(Tail(text)) ELSE text
RECURSIVE RStrip(_)
RStrip(text) ==
    IF text # <<>> /\ IsSpace(text[Len(text)])
    THEN RStrip(SubSeq(text, 1, Len(text) - 1)) ELSE text
Strip(text) == RStrip(LStrip(text))

\* text.split(): the whitespace-separated words
RECURSIVE SplitWords(_, _, _)
SplitWords(text, word, acc) ==
    IF text = <<>> THEN (IF word = <<>> THEN acc ELSE Append(acc, word))
    ELSE IF IsSpace(Head(text))
         THEN SplitWords(Tail(text), <<>>, IF word = <<>> THEN acc ELSE Append(acc, word))
         ELSE SplitWords(Tail(text), Append(word, Head(text)), acc)
Split(text) == SplitWords(text, <<>>, <<>>)

-----------------------------------------------------------------------------
(* The object state as one record, and the environment of one key event.    *)

\* The fields of the ChatUI object and what its handlers act on, as they are
\* now.  ret is the value the handler returned, exc the exception it raised.
Self ==
    [messages |-> messages, input_history |-> input_history,
     history_index |-> history_index, current_input |-> current_input,
     cursor_pos |-> cursor_pos, file_placeholders |-> file_placeholders,
     command_mode |-> command_mode, command_input |-> command_input,
     command_cursor_pos |-> command_cursor_pos, saved_input |-> saved_input,
     saved_cursor_pos |-> saved_cursor_pos, current_config |-> current_config,
     configs |-> configs, threads |-> threads, history_dir |-> history_dir,
     pending |-> pending, now |-> now, last_redraw_time |-> last_redraw_time,
     drawn |-> drawn, args |-> args, ret |-> FALSE, exc |-> NoExc]

\* The variables after a handler that ends in the record s.
Becomes(s) ==
    /\ messages' = s.messages
    /\ input_history' = s.input_history
    /\ history_index' = s.history_index
    /\ current_input' = s.current_input
    /\ cursor_pos' = s.cursor_pos
    /\ file_placeholders' = s.file_placeholders
    /\ command_mode' = s.command_mode
    /\ command_input' = s.command_input
    /\ command_cursor_pos' = s.command_cursor_pos
    /\ saved_input' = s.saved_input
    /\ saved_cursor_pos' = s.saved_cursor_pos
    /\ current_config' = s.current_config
    /\ configs' = s.configs
    /\ threads' = s.threads
    /\ history_dir' = s.history_dir
    /\ pending' = s.pending
    /\ now' = s.now
    /\ last_redraw_time' = s.last_redraw_time
    /\ drawn' = s.drawn
    /\ args' = s.args

\* What the terminal, the selectors and the file system answer during one
\* key event: selected_file and selected_config are what select_file_tui and
\* select_provider_tui return (NoneVal when cancelled), confirm_key the key
\* read by the purge confirmation, files the state of each path on disk,
\* write_ok whether the save file can be written.
NoEnv ==
    [selected_file |-> NoneVal, selected_config |-> NoneVal,
     confirm_key |-> 110, files |-> <<>>, write_ok |-> TRUE, stamp |-> 0]

-----------------------------------------------------------------------------
(* Line editor and mode switch: ChatUI.process_input and friends.           *)

\* text[:pos] + char + text[pos:]
InsertAt(text, pos, char) == Take(text, pos) \o char \o Drop(text, pos)

\* text[:pos-1] + text[pos:]
DeleteBefore(text, pos) == Take(text, pos - 1) \o Drop(text, pos)

\* A continuation byte of UTF-8.
IsCont(b) == b >= 128 /\ b <= 191

\* bytes.decode('utf-8') on at most three bytes: Some(the code points), or
\* NoneVal for UnicodeDecodeError.
RECURSIVE Utf8Decode(_)
Utf8Decode(bs) ==
    IF bs = <<>> THEN Some(<<>>)
    ELSE LET b == bs[1]
             rest(n) == Utf8Decode(SubSeq(bs, n + 1, Len(bs)))
             join(cp, n) == IF rest(n) = NoneVal THEN NoneVal
                            ELSE Some(<<cp>> \o rest(n)[1])
         IN  IF b < 128 THEN join(b, 1)
             ELSE IF b >= 194 /\ b <= 223
                  THEN IF Len(bs) >= 2 /\ IsCont(bs[2])
                       THEN join((b - 192) * 64 + (bs[2] - 128), 2)
                       ELSE NoneVal
             ELSE IF b >= 224 /\ b <= 239
                  THEN IF /\ Len(bs) >= 3 /\ IsCont(bs[2]) /\ IsCont(bs[3])
                          /\ (b = 224 => bs[2] >= 160)
                          /\ (b = 237 => bs[2] <= 159)
                       THEN join((b - 224) * 4096 + (bs[2] - 128) * 64 + (bs[3] - 128), 3)
                       ELSE NoneVal
             ELSE NoneVal

\* The look-ahead loop: up to two non-blocking getch() calls.  A code read
\* that is not in 0..255 ends the loop and is gone from the queue.
RECURSIVE LookAhead(_, _, _)
LookAhead(queue, bytes_seq, n) ==
    IF n = 0 \/ queue = <<>> THEN [bytes_seq |-> bytes_seq, queue |-> queue]
    ELSE IF Head(queue) >= 0 /\ Head(queue) <= 255
         THEN LookAhead(Tail(queue), Append(bytes_seq, Head(queue)), n - 1)
         ELSE [bytes_seq |-> bytes_seq, queue |-> Tail(queue)]

\* The character path shared by process_input and process_command_input:
\* Some(the text to insert) or NoneVal, and the input queue left.
DecodeKey(key, queue) ==
    IF key > 127
    THEN LET la == LookAhead(queue, <<key>>, 2)
             ok == \A i \in 1..Len(la.bytes_seq) : la.bytes_seq[i] <= 255
             dec == IF ok THEN Utf8Decode(la.bytes_seq) ELSE NoneVal
         IN  [char |-> IF ~ok THEN NoneVal                   \* ValueError
                       ELSE IF dec = NoneVal THEN Some(<<key>>)  \* chr(bytes_seq[0])
                       ELSE dec,
              queue |-> la.queue]
    ELSE [char |-> Some(<<key>>), queue |-> queue]

enter_command_mode(s) ==
    [s EXCEPT !.command_mode = TRUE,
              !.saved_input = s.current_input,
              !.saved_cursor_pos = s.cursor_pos,
              !.current_input = <<>>,
              !.cursor_pos = 0,
              !.command_input = <<>>,
              !.command_cursor_pos = 0]

\* A variant that leaves the cursor at the end of the restored text.
exit_command_mode_cursor_end(s, restore_input) ==
    [s EXCEPT !.command_mode = FALSE,
              !.current_input = IF restore_input THEN s.saved_input ELSE <<>>,
              !.cursor_pos = IF restore_input THEN Len(s.saved_input) ELSE 0,
              !.saved_input = <<>>,
              !.saved_cursor_pos = 0]

exit_command_mode(s, restore_input) ==
    [s EXCEPT !.command_mode = FALSE,
              !.current_input = IF restore_input THEN s.saved_input ELSE <<>>,
              !.cursor_pos = IF restore_input THEN s.saved_cursor_pos ELSE 0,
              !.saved_input = <<>>,
              !.saved_cursor_pos = 0]

\* KEY_UP in Normal mode
recall_previous(s) ==
    IF s.input_history # <<>> /\ s.history_index < Len(s.input_history) - 1
    THEN [s EXCEPT !.history_index = s.history_index + 1,
                   !.current_input = s.input_history[s.history_index + 2],
                   !.cursor_pos = Len(s.input_history[s.history_index + 2])]
    ELSE s

\* A recall-next that leaves the recalled text in the buffer when it
\* comes back from the newest entry.
recall_next_keeps_buffer(s) ==
    IF s.input_history = <<>> THEN s
    ELSE IF s.history_index > 0
         THEN [s EXCEPT !.history_index = s.history_index - 1,
                        !.current_input = s.input_history[s.history_index],
                        !.cursor_pos = Len(s.input_history[s.history_index])]
    ELSE IF s.history_index = 0
         THEN [s EXCEPT !.history_index = -1]
    ELSE s

\* KEY_DOWN in Normal mode
recall_next(s) ==
    IF s.input_history = <<>> THEN s
    ELSE IF s.history_index > 0
         THEN [s EXCEPT !.history_index = s.history_index - 1,
                        !.current_input = s.input_history[s.history_index],
                        !.cursor_pos = Len(s.input_history[s.history_index])]
    ELSE IF s.history_index = 0
         THEN [s EXCEPT !.history_index = -1, !.current_input = <<>>, !.cursor_pos = 0]
    ELSE s

move_left(s) ==
    IF s.cursor_pos > 0 THEN [s EXCEPT !.cursor_pos = s.cursor_pos - 1] ELSE s

\* A variant without the test against the length of the text.
move_right_unchecked(s) == [s EXCEPT !.cursor_pos = s.cursor_pos + 1]

move_right(s) ==
    IF s.cursor_pos < Len(s.current_input)
    THEN [s EXCEPT !.cursor_pos = s.cursor_pos + 1] ELSE s

\* A variant that deletes the first character of the text.
delete_backward_first(s) ==
    IF s.cursor_pos > 0
    THEN [s EXCEPT !.current_input = Tail(s.current_input),
                   !.cursor_pos = s.cursor_pos - 1]
    ELSE s

delete_backward(s) ==
    IF s.cursor_pos > 0
    THEN [s EXCEPT !.current_input = DeleteBefore(s.current_input, s.cursor_pos),
                   !.cursor_pos = s.cursor_pos - 1]
    ELSE s

\* redraw_input_only draws the buffer of the mode with safe_addstr, which
\* catches curses.error and UnicodeEncodeError only: addstr raises ValueError
\* (embedded null character) for a text that holds the code point 0.  The
\* line is taken to be wider than the text.
redraw_input_only(s) ==
    LET text == IF s.command_mode THEN s.command_input ELSE s.current_input
    IN  IF \E i \in 1..Len(text) : text[i] = 0
        THEN [s EXCEPT !.exc = "ValueError"]
        ELSE s

\* The character path of process_input (lines 863-916).
insert_char(s, key) ==
    IF key < 0 \/ key > MAX_CODEPOINT THEN s
    ELSE LET d == DecodeKey(key, s.pending)
         IN  redraw_input_only(
                 IF d.char = NoneVal THEN [s EXCEPT !.pending = d.queue]
                 ELSE [s EXCEPT !.current_input =
                                    InsertAt(s.current_input, s.cursor_pos, d.char[1]),
                                !.cursor_pos = s.cursor_pos + Len(d.char[1]),
                                !.pending = d.queue])

command_move_left(s) ==
    IF s.command_cursor_pos > 0
    THEN [s EXCEPT !.command_cursor_pos = s.command_cursor_pos - 1] ELSE s

command_move_right(s) ==
    IF s.command_cursor_pos < Len(s.command_input)
    THEN [s EXCEPT !.command_cursor_pos = s.command_cursor_pos + 1] ELSE s

command_delete_backward(s) ==
    IF s.command_cursor_pos > 0
    THEN [s EXCEPT !.command_input = DeleteBefore(s.command_input, s.command_cursor_pos),
                   !.command_cursor_pos = s.command_cursor_pos - 1]
    ELSE s

\* The look-ahead loop of process_command_input (lines 991-997).
RECURSIVE CommandLookAhead(_, _, _)
CommandLookAhead(queue, bytes_seq, n) ==
    IF n = 0 \/ queue = <<>> THEN [bytes_seq |-> bytes_seq, queue |-> queue]
    ELSE LET next_key == Head(queue)
         IN  IF next_key # -1 /\ 0 <= next_key /\ next_key <= 255
             THEN CommandLookAhead(Tail(queue), Append(bytes_seq, next_key), n - 1)
             ELSE [bytes_seq |-> bytes_seq, queue |-> Tail(queue)]

\* The decoding of process_command_input (lines 979-1023): Some(the text to
\* insert) or NoneVal, and the input queue left.
CommandDecodeKey(key, queue) ==
    IF key > 127
    THEN LET la == CommandLookAhead(queue, <<key>>, 2)
             bytes_seq == la.bytes_seq
         IN  IF \E i \in 1..Len(bytes_seq) : bytes_seq[i] > 255
             THEN [char |-> NoneVal, queue |-> la.queue]               \* ValueError
             ELSE IF Utf8Decode(bytes_seq) = NoneVal
             THEN [char |-> Some(<<bytes_seq[1]>>), queue |-> la.queue]  \* chr(bytes_seq[0])
             ELSE [char |-> Utf8Decode(bytes_seq), queue |-> la.queue]
    ELSE [char |-> Some(<<key>>), queue |-> queue]

\* A character path that does not look ahead for the bytes of a sequence.
command_insert_char_single(s, key) ==
    IF key < 0 \/ key > MAX_CODEPOINT THEN s
    ELSE redraw_input_only(
             [s EXCEPT !.command_input = InsertAt(s.command_input, s.command_cursor_pos, <<key>>),
                       !.command_cursor_pos = s.command_cursor_pos + 1])

\* The character path of process_command_input (lines 977-1030).
command_insert_char(s, key) ==
    IF key < 0 \/ key > MAX_CODEPOINT THEN s
    ELSE LET d == CommandDecodeKey(key, s.pending)
         IN  redraw_input_only(
                 IF d.char = NoneVal THEN [s EXCEPT !.pending = d.queue]
                 ELSE [s EXCEPT !.command_input =
                                    InsertAt(s.command_input, s.command_cursor_pos, d.char[1]),
                                !.command_cursor_pos = s.command_cursor_pos + Len(d.char[1]),
                                !.pending = d.queue])

-----------------------------------------------------------------------------
(* Notices, file tags, persistence.                                         *)

MAX_FILE_SIZE == 1048576
WINDOW == 10

Message(role, content) == [role |-> role, content |-> content]

\* self.redraw_throttle, in milliseconds
REDRAW_THROTTLE == 100

\* What the full-redraw requests of one step did: forced, a forced request
\* has drawn the screen; unforced, what became of the request of the loop.
NotDrawn == [forced |-> FALSE, unforced |-> "none"]

\* A redraw that draws whenever asked.
redraw_unthrottled(s, force) ==
    [s EXCEPT !.last_redraw_time = s.now,
              !.drawn = IF force THEN [@ EXCEPT !.forced = TRUE]
                        ELSE [@ EXCEPT !.unforced = "performed"]]

\* ChatUI.redraw
redraw(s, force) ==
    IF ~force /\ s.now - s.last_redraw_time < REDRAW_THROTTLE
    THEN [s EXCEPT !.drawn = [@ EXCEPT !.unforced = "dropped"]]
    ELSE [s EXCEPT !.last_redraw_time = s.now,
                   !.drawn = IF force THEN [@ EXCEPT !.forced = TRUE]
                             ELSE [@ EXCEPT !.unforced = "performed"]]

\* ChatUI.add_system_message
add_system_message(s, message) ==
    LET text == IF Len(message) > MAX_MESSAGE_LENGTH
                THEN Take(message, MAX_MESSAGE_LENGTH) \o SYSTEM_TRUNCATED
                ELSE message
    IN  redraw([s EXCEPT !.messages = Append(s.messages, Message("system", text))], TRUE)

\* f"{{{{:F{path}}}}}"
Tag(path) == TAG_OPEN \o path \o TAG_CLOSE

\* The length of the longest run of characters other than "}" that starts
\* at index i of text.
RECURSIVE RunNotClose(_, _)
RunNotClose(text, i) ==
    IF i > Len(text) \/ text[i] = 125 THEN 0 ELSE 1 + RunNotClose(text, i + 1)

\* re.findall(r'\{\{:F([^}]+)\}\}', text): the group of every match, left to
\* right, matches not overlapping.
RECURSIVE FindAllTags(_, _)
FindAllTags(text, from) ==
    LET i == FindFrom(text, TAG_OPEN, from)
        n == RunNotClose(text, i + 4)
        close == i + 4 + n
    IN  IF i = 0 THEN <<>>
        ELSE IF n >= 1 /\ Slice(text, close, close + 1) = TAG_CLOSE
             THEN <<SubSeq(text, i + 4, close - 1)>> \o FindAllTags(text, close + 2)
             ELSE FindAllTags(text, i + 1)

\* The state of a path on disk, as the file checks of the source see it.
FileAt(files, path) ==
    IF path \in DOMAIN files THEN files[path]
    ELSE [exists |-> FALSE, size |-> 0, readable |-> FALSE, content |-> <<>>,
          error |-> <<>>]

\* What one tag is replaced by: lines 335-353 of replace_file_tags (the same
\* text as lines 1390-1408 of send_message).
Expansion(files, file_path) ==
    LET f == FileAt(files, file_path)
    IN  IF ~f.exists THEN NOT_FOUND \o file_path \o <<93>>
        ELSE IF f.size > MAX_FILE_SIZE THEN TOO_LARGE \o file_path \o <<93>>
        ELSE IF ~f.readable THEN READ_ERROR \o f.error \o <<93>>
        ELSE FENCE_OPEN \o file_path \o <<10>> \o f.content \o FENCE_CLOSE

\* The loop of replace_file_tags over the matches found in the original text.
RECURSIVE ReplaceEach(_, _, _)
ReplaceEach(input_str, matches, files) ==
    IF matches = <<>> THEN input_str
    ELSE LET file_path == Strip(Head(matches))
         IN  ReplaceEach(Replace(input_str, Tag(file_path), Expansion(files, file_path)),
                         Tail(matches), files)

replace_file_tags(input_str, files) ==
    ReplaceEach(input_str, FindAllTags(input_str, 1), files)

\* The local processed_input of send_message (lines 1385-1412): the input with
\* the placeholders of the table expanded, cut at the maximum length.
RECURSIVE ExpandPlaceholders(_, _, _)
ExpandPlaceholders(text, table, files) ==
    IF table = <<>> THEN text
    ELSE ExpandPlaceholders(
             Replace(text, Head(table)[1], Expansion(files, Head(table)[2])),
             Tail(table), files)

processed_input(s, files) ==
    LET expanded == ExpandPlaceholders(s.current_input, s.file_placeholders, files)
    IN  IF Len(expanded) > MAX_MESSAGE_LENGTH
        THEN Take(expanded, MAX_MESSAGE_LENGTH) \o MESSAGE_TRUNCATED
        ELSE expanded

\* dict[key] = value on the insertion-ordered table of <<key, value>> pairs
RECURSIVE DictSet(_, _, _)
DictSet(table, key, value) ==
    IF table = <<>> THEN <<<<key, value>>>>
    ELSE IF Head(table)[1] = key THEN <<<<key, value>>>> \o Tail(table)
    ELSE <<Head(table)>> \o DictSet(Tail(table), key, value)

\* The messages of a list that are not system messages, in order.
RECURSIVE NonSystem(_)
NonSystem(msgs) ==
    IF msgs = <<>> THEN <<>>
    ELSE IF Head(msgs).role = "system" THEN NonSystem(Tail(msgs))
    ELSE <<Head(msgs)>> \o NonSystem(Tail(msgs))

\* A loop that stops appending once ten messages are held.
RECURSIVE BuildWindow_keep_oldest(_, _, _)
BuildWindow_keep_oldest(msgs, acc, files) ==
    IF msgs = <<>> THEN acc
    ELSE LET msg == Head(msgs)
             content == IF msg.role = "user" THEN replace_file_tags(msg.content, files)
                        ELSE msg.content
         IN  IF msg.role = "system" \/ Len(acc) >= WINDOW
             THEN BuildWindow_keep_oldest(Tail(msgs), acc, files)
             ELSE BuildWindow_keep_oldest(Tail(msgs),
                                          Append(acc, Message(msg.role, content)), files)

\* The loop of send_message that builds messages_to_send (lines 1420-1438).
RECURSIVE BuildWindow(_, _, _)
BuildWindow(msgs, acc, files) ==
    IF msgs = <<>> THEN acc
    ELSE LET msg == Head(msgs)
             content == IF msg.role = "user" THEN replace_file_tags(msg.content, files)
                        ELSE msg.content
         IN  IF msg.role = "system" THEN BuildWindow(Tail(msgs), acc, files)
             ELSE IF Len(acc) < WINDOW
                  THEN BuildWindow(Tail(msgs), Append(acc, Message(msg.role, content)), files)
                  ELSE BuildWindow(Tail(msgs),
                                   Append(Tail(acc), Message(msg.role, content)), files)

\* A background thread as started by send_message: its target function, the
\* argument it was given, its local full_response, where it stands, and the
\* profile its request was made with (NoneVal before the request).
Thread(target, messages_to_send) ==
    [target |-> target, messages_to_send |-> messages_to_send,
     full_response |-> <<>>, pc |-> "start", request |-> NoneVal]

\* A send that files the message behind the older entries of the history.
send_message_appends(s, env) ==
    IF Strip(s.current_input) = <<>> THEN [s EXCEPT !.ret = FALSE]
    ELSE LET logged == Append(s.messages, Message("user", s.current_input))
             messages_to_send == BuildWindow(logged, <<>>, env.files)
             target == IF s.current_config.request_type = "curl"
                       THEN "send_curl_request" ELSE "send_openai_request"
         IN  [redraw(s, TRUE)
              EXCEPT !.input_history = Append(s.input_history, s.current_input),
                     !.history_index = -1,
                     !.messages = Append(logged, Message("assistant", THINKING)),
                     !.threads = Append(s.threads, Thread(target, messages_to_send)),
                     !.current_input = <<>>,
                     !.cursor_pos = 0,
                     !.ret = FALSE]

\* A send_message without the test of line 1377.
send_message_sends_blank(s, env) ==
    LET logged == Append(s.messages, Message("user", s.current_input))
        target == IF s.current_config.request_type = "curl"
                  THEN "send_curl_request" ELSE "send_openai_request"
    IN  [redraw(s, TRUE)
         EXCEPT !.input_history = <<s.current_input>> \o s.input_history,
                !.history_index = -1,
                !.messages = Append(logged, Message("assistant", THINKING)),
                !.threads = Append(s.threads,
                                   Thread(target, BuildWindow(logged, <<>>, env.files))),
                !.current_input = <<>>,
                !.cursor_pos = 0,
                !.ret = FALSE]

\* ChatUI.send_message
send_message(s, env) ==
    IF Strip(s.current_input) = <<>> THEN [s EXCEPT !.ret = FALSE]
    ELSE LET logged == Append(s.messages, Message("user", s.current_input))
             messages_to_send == BuildWindow(logged, <<>>, env.files)
             target == IF s.current_config.request_type = "curl"
                       THEN "send_curl_request" ELSE "send_openai_request"
         IN  [redraw(s, TRUE)
              EXCEPT !.input_history = <<s.current_input>> \o s.input_history,
                     !.history_index = -1,
                     !.messages = Append(logged, Message("assistant", THINKING)),
                     !.threads = Append(s.threads, Thread(target, messages_to_send)),
                     !.current_input = <<>>,
                     !.cursor_pos = 0,
                     !.ret = FALSE]

-----------------------------------------------------------------------------
(* Commands: ChatUI.handle_command and ChatUI.load_history.                 *)

\* "chat_", ".json", "chat_history/", "..."
CHAT_PREFIX == <<99, 104, 97, 116, 95>>
JSON_SUFFIX == <<46, 106, 115, 111, 110>>
HISTORY_DIR == <<99, 104, 97, 116, 95, 104, 105, 115, 116, 111, 114, 121, 47>>
ELLIPSIS == <<46, 46, 46>>
\* str(e) of the exceptions the environment raises
NO_SUCH_FILE ==
    <<91, 69, 114, 114, 110, 111, 32, 50, 93, 32, 78, 111, 32, 115, 117, 99, 104, 32,
      102, 105, 108, 101>>
JSON_ERROR == <<69, 120, 112, 101, 99, 116, 105, 110, 103, 32, 118, 97, 108, 117, 101>>
PERMISSION_DENIED ==
    <<91, 69, 114, 114, 110, 111, 32, 49, 51, 93, 32, 80, 101, 114, 109, 105, 115,
      115, 105, 111, 110, 32, 100, 101, 110, 105, 101, 100>>

\* command.split(' ', 1): the text after the first space, NoneVal when the
\* command has no space
AfterFirstSpace(command) ==
    LET i == FindFrom(command, <<32>>, 1)
    IN  IF i = 0 THEN NoneVal ELSE Some(SubSeq(command, i + 1, Len(command)))

\* text.replace('\n', ' ')
RECURSIVE NewlinesToSpaces(_)
NewlinesToSpaces(text) ==
    IF text = <<>> THEN <<>>
    ELSE <<IF Head(text) = 10 THEN 32 ELSE Head(text)>> \o NewlinesToSpaces(Tail(text))

\* The title of a saved conversation (lines 1089-1093).
RECURSIVE Title(_)
Title(msgs) ==
    IF msgs = <<>> THEN <<26410, 21629, 21517, 23545, 35805>>
    ELSE IF Head(msgs).role = "user"
         THEN Take(NewlinesToSpaces(Head(msgs).content), 20) \o ELLIPSIS
         ELSE Title(Tail(msgs))

\* The placeholder loop of the save command on one user content.
RECURSIVE RestorePlaceholders(_, _)
RestorePlaceholders(content, table) ==
    IF table = <<>> THEN content
    ELSE RestorePlaceholders(
             IF Contains(content, Head(table)[1])
             THEN Replace(content, Head(table)[1], Tag(Head(table)[2]))
             ELSE content,
             Tail(table))

\* A save that keeps the notices.
RECURSIVE MessagesToSave_with_notices(_, _)
MessagesToSave_with_notices(msgs, table) ==
    IF msgs = <<>> THEN <<>>
    ELSE LET msg == Head(msgs)
         IN  IF msg.role = "user"
             THEN <<Message("user", RestorePlaceholders(msg.content, table))>>
                  \o MessagesToSave_with_notices(Tail(msgs), table)
             ELSE <<msg>> \o MessagesToSave_with_notices(Tail(msgs), table)

\* messages_to_save of the save command (lines 1096-1109).
RECURSIVE MessagesToSave(_, _)
MessagesToSave(msgs, table) ==
    IF msgs = <<>> THEN <<>>
    ELSE LET msg == Head(msgs)
         IN  IF msg.role = "system" THEN MessagesToSave(Tail(msgs), table)
             ELSE IF msg.role = "user"
                  THEN <<Message("user", RestorePlaceholders(msg.content, table))>>
                       \o MessagesToSave(Tail(msgs), table)
                  ELSE <<msg>> \o MessagesToSave(Tail(msgs), table)

\* A file of HISTORY_DIR as json.load reads it: valid is FALSE for a file
\* that is not JSON.
SavedFile(stamp, title, provider, model, msgs) ==
    [valid |-> TRUE, timestamp |-> stamp, title |-> title, provider |-> provider,
     model |-> model, messages |-> msgs]

\* Writing a file into the directory.
WriteFile(dir, name, data) ==
    [n \in DOMAIN dir \cup {name} |-> IF n = name THEN data ELSE dir[n]]

\* The profile of the list that load_history selects (lines 1200-1209): the
\* first with the saved name and model, else a new ChatConfig.
RECURSIVE FindConfig(_, _, _)
FindConfig(cfgs, provider, model) ==
    IF cfgs = <<>>
    THEN [name |-> provider, model |-> model, request_type |-> "openai",
          is_infini |-> FALSE]
    ELSE IF Head(cfgs).name = provider /\ Head(cfgs).model = model THEN Head(cfgs)
    ELSE FindConfig(Tail(cfgs), provider, model)

\* The placeholder table rebuilt from the loaded messages (lines 1215-1222).
RECURSIVE SetAll(_, _)
SetAll(table, paths) ==
    IF paths = <<>> THEN table
    ELSE SetAll(DictSet(table, Tag(Head(paths)), Head(paths)), Tail(paths))

RECURSIVE RebuildPlaceholders(_, _)
RebuildPlaceholders(msgs, table) ==
    IF msgs = <<>> THEN table
    ELSE IF Head(msgs).role = "user"
         THEN RebuildPlaceholders(Tail(msgs),
                                  SetAll(table, FindAllTags(Head(msgs).content, 1)))
         ELSE RebuildPlaceholders(Tail(msgs), table)

\* A message of a file is a dict: one that has no key 'content' is a record
\* without the field.  "'content'" is str(e) of the KeyError.
HasContent(msg) == "content" \in DOMAIN msg
KEY_ERROR == <<39, 99, 111, 110, 116, 101, 110, 116, 39>>

\* ChatUI.load_history; name is the file's name in HISTORY_DIR.  With a
\* message that has no content among the loaded ones, the redraw of the
\* first notice (line 1211) raises KeyError at line 644 after the notice is
\* appended; the except clause of line 1223 appends its notice, whose redraw
\* raises again, and that exception leaves load_history.
load_history(s, name) ==
    IF name \notin DOMAIN s.history_dir
    THEN add_system_message(s, LOAD_FAILED \o NO_SUCH_FILE)
    ELSE IF ~s.history_dir[name].valid
    THEN add_system_message(s, LOAD_FAILED \o JSON_ERROR)
    ELSE LET data == s.history_dir[name]
             loaded == SelectSeq(data.messages,
                                 LAMBDA msg : msg.role \in {"user", "assistant"})
             s1 == [s EXCEPT !.messages = loaded,
                             !.current_config =
                                 FindConfig(s.configs, data.provider, data.model)]
             s2 == add_system_message(s1, LOADED \o name)
             s3 == add_system_message(
                       s2, PROVIDER_LABEL \o data.provider \o MODEL_LABEL \o data.model)
         IN  IF \E n \in 1..Len(loaded) : ~HasContent(loaded[n])
             THEN [add_system_message(s2, LOAD_FAILED \o KEY_ERROR)
                   EXCEPT !.exc = "KeyError"]
             ELSE [s3 EXCEPT !.file_placeholders = RebuildPlaceholders(loaded, <<>>)]

\* The branches of handle_command, in the order of the source.
\* A file command that joins the tag to the text without the space.
command_file_no_space(s, env) ==
    IF env.selected_file = NoneVal THEN [s EXCEPT !.ret = FALSE]
    ELSE LET placeholder == Tag(env.selected_file[1])
         IN  [s EXCEPT !.saved_input = s.saved_input \o placeholder,
                       !.saved_cursor_pos = Len(s.saved_input \o placeholder),
                       !.file_placeholders =
                           DictSet(s.file_placeholders, placeholder, env.selected_file[1]),
                       !.ret = FALSE]

command_file(s, env) ==
    IF env.selected_file = NoneVal THEN [s EXCEPT !.ret = FALSE]
    ELSE LET selected_file == env.selected_file[1]
             placeholder == Tag(selected_file)
             text == IF s.saved_input # <<>>
                     THEN s.saved_input \o <<32>> \o placeholder
                     ELSE placeholder
         IN  [s EXCEPT !.saved_input = text,
                       !.saved_cursor_pos = Len(text),
                       !.file_placeholders =
                           DictSet(s.file_placeholders, placeholder, selected_file),
                       !.ret = FALSE]

command_provider(s, env) ==
    IF env.selected_config = NoneVal THEN [redraw(s, TRUE) EXCEPT !.ret = FALSE]
    ELSE LET selected_config == env.selected_config[1]
             s1 == [s EXCEPT !.current_config = selected_config]
         IN  [redraw(add_system_message(
                         s1, SWITCHED_TO \o selected_config.name \o <<32, 40>>
                             \o selected_config.model \o <<41>>), TRUE)
              EXCEPT !.ret = FALSE]

\* A clear that leaves the placeholder table as it is.
command_clear_keeps_table(s) ==
    [redraw(add_system_message([s EXCEPT !.messages = <<>>], HISTORY_CLEARED), TRUE)
     EXCEPT !.ret = FALSE]

command_clear(s) ==
    [redraw(add_system_message([s EXCEPT !.messages = <<>>, !.file_placeholders = <<>>],
                               HISTORY_CLEARED), TRUE)
     EXCEPT !.ret = FALSE]

command_save(s, command, env) ==
    LET given == AfterFirstSpace(command)
        named == IF given = NoneVal \/ given = Some(<<>>)
                 THEN CHAT_PREFIX \o <<48 + env.stamp>> \o JSON_SUFFIX
                 ELSE given[1]
        filename == IF EndsWith(named, JSON_SUFFIX) THEN named ELSE named \o JSON_SUFFIX
        data == SavedFile(env.stamp, Title(s.messages), s.current_config.name,
                          s.current_config.model,
                          MessagesToSave(s.messages, s.file_placeholders))
    IN  IF env.write_ok
        THEN [redraw(add_system_message(
                         [s EXCEPT !.history_dir = WriteFile(s.history_dir, filename, data)],
                         SAVED_TO \o HISTORY_DIR \o filename), TRUE)
              EXCEPT !.ret = FALSE]
        ELSE [redraw(add_system_message(s, SAVE_FAILED \o PERMISSION_DENIED), TRUE)
              EXCEPT !.ret = FALSE]

command_load(s, command, env) ==
    LET given == AfterFirstSpace(command)
    IN  IF given # NoneVal /\ given # Some(<<>>)
        THEN IF given[1] \notin DOMAIN s.history_dir
             THEN [add_system_message(s, FILE_MISSING \o HISTORY_DIR \o given[1])
                   EXCEPT !.ret = FALSE]
             ELSE LET s1 == load_history(s, given[1])
                  IN  IF s1.exc # NoExc THEN s1
                      ELSE [redraw(s1, TRUE) EXCEPT !.ret = FALSE]
        ELSE IF env.selected_file = NoneVal THEN [redraw(s, TRUE) EXCEPT !.ret = FALSE]
        ELSE LET s1 == load_history(s, env.selected_file[1])
             IN  IF s1.exc # NoExc THEN s1
                 ELSE [redraw(s1, TRUE) EXCEPT !.ret = FALSE]

command_history(s) == [redraw(s, TRUE) EXCEPT !.ret = FALSE]

\* The purge command: the confirmation key is the next key of the terminal.
\* A purge that does not look at the key it waited for.
command_clean_unconfirmed(s, env) ==
    LET s1 == add_system_message(s, CONFIRM_CLEAN)
        s2 == [s1 EXCEPT !.pending = IF s1.pending # <<>> THEN Tail(s1.pending) ELSE <<>>]
    IN  [add_system_message([s2 EXCEPT !.history_dir = <<>>], CLEANED) EXCEPT !.ret = FALSE]

command_clean(s, env) ==
    LET s1 == add_system_message(s, CONFIRM_CLEAN)
        key == IF s1.pending # <<>> THEN Head(s1.pending) ELSE env.confirm_key
        s2 == [s1 EXCEPT !.pending = IF s1.pending # <<>> THEN Tail(s1.pending) ELSE <<>>]
    IN  IF key = 121 \/ key = 89
        THEN IF env.write_ok
             THEN [redraw(add_system_message([s2 EXCEPT !.history_dir = <<>>], CLEANED),
                          TRUE)
                   EXCEPT !.ret = FALSE]
             ELSE [redraw(add_system_message(s2, CLEAN_FAILED \o PERMISSION_DENIED), TRUE)
                   EXCEPT !.ret = FALSE]
        ELSE [redraw(add_system_message(s2, CLEAN_CANCELLED), TRUE) EXCEPT !.ret = FALSE]

\* The last two statements of handle_command: command.split()[0] raises
\* IndexError when the command has a space and no word.
command_unknown(s, command) ==
    IF Contains(command, <<32>>)
    THEN IF Split(command) = <<>> THEN [s EXCEPT !.exc = "IndexError"]
         ELSE [add_system_message(s, UNKNOWN_COMMAND \o Split(command)[1])
               EXCEPT !.ret = FALSE]
    ELSE [add_system_message(s, UNKNOWN_COMMAND \o command) EXCEPT !.ret = FALSE]

\* ChatUI.handle_command
handle_command(s, command, env) ==
    IF StartsWith(command, <<102, 105, 108, 101>>) \/ StartsWith(command, <<102>>)
    THEN command_file(s, env)
    ELSE IF StartsWith(command, <<112, 114, 111, 118, 105, 100, 101, 114>>)
            \/ StartsWith(command, <<112>>)
    THEN command_provider(s, env)
    ELSE IF StartsWith(command, <<99, 108, 101, 97, 114>>)
            \/ StartsWith(command, <<99, 114>>)
    THEN command_clear(s)
    ELSE IF StartsWith(command, <<115, 97, 118, 101>>) \/ StartsWith(command, <<115>>)
    THEN command_save(s, command, env)
    ELSE IF StartsWith(command, <<108, 111, 97, 100>>) \/ StartsWith(command, <<108>>)
    THEN command_load(s, command, env)
    ELSE IF StartsWith(command, <<104, 105, 115, 116, 111, 114, 121>>)
            \/ StartsWith(command, <<104>>)
    THEN command_history(s)
    ELSE IF StartsWith(command, <<99, 108, 101, 97, 110>>)
            \/ StartsWith(command, <<99, 110>>)
    THEN command_clean(s, env)
    ELSE IF StartsWith(command, <<101, 120, 105, 116>>)
            \/ StartsWith(command, <<113, 117, 105, 116>>)
    THEN [s EXCEPT !.ret = TRUE]
    ELSE command_unknown(s, command)

-----------------------------------------------------------------------------
(* Key dispatch: ChatUI.process_command_input and ChatUI.process_input.     *)

IsEnter(key) == key = KEY_ENTER \/ key = K_NEWLINE \/ key = K_RETURN
IsBackspace(key) == key = KEY_BACKSPACE \/ key = K_DEL

process_command_input(s, key, env) ==
    IF IsEnter(key)
    THEN LET s1 == handle_command(s, s.command_input, env)
         IN  IF s1.exc # NoExc THEN s1
             ELSE [exit_command_mode(s1, TRUE) EXCEPT !.ret = FALSE]
    ELSE IF key = K_ESC THEN [exit_command_mode(s, TRUE) EXCEPT !.ret = FALSE]
    ELSE IF IsBackspace(key) THEN command_delete_backward(s)
    ELSE IF key = KEY_LEFT THEN command_move_left(s)
    ELSE IF key = KEY_RIGHT THEN command_move_right(s)
    ELSE command_insert_char(s, key)

process_input(s, key, env) ==
    IF s.command_mode THEN process_command_input(s, key, env)
    ELSE IF IsEnter(key) THEN send_message(s, env)
    ELSE IF key = K_CTRL_L THEN enter_command_mode(s)
    ELSE IF key = KEY_UP THEN recall_previous(s)
    ELSE IF key = KEY_DOWN THEN recall_next(s)
    ELSE IF key = KEY_LEFT THEN move_left(s)
    ELSE IF key = KEY_RIGHT THEN move_right(s)
    ELSE IF IsBackspace(key) THEN delete_backward(s)
    ELSE IF key = K_ESC THEN handle_command(s, <<101, 120, 105, 116>>, env)
    ELSE insert_char(s, key)

-----------------------------------------------------------------------------
(* Background threads: ChatUI.send_openai_request and send_curl_request.    *)
(* One step is one blocking call of the thread returning: the request, or   *)
(* the next chunk of the response.  What the network answers is the         *)
(* parameter of the step.                                                   *)

\* str(e) of a transport failure, the status line of a refused request
CONNECTION_ERROR == <<67, 111, 110, 110, 101, 99, 116, 105, 111, 110>>
HTTP_500 == <<72, 84, 84, 80, 32, 53, 48, 48, 32, 45, 32>>
\* str(TypeError) of full_response += None
NONE_TYPE == <<78, 111, 110, 101, 84, 121, 112, 101>>

\* full_response += content, then the cut at the maximum length
\* (lines 1245-1249 and 1344-1348).
\* A variant that appends the marker without cutting.
Accumulate_uncut(full_response, content) ==
    LET full == full_response \o content
    IN  IF Len(full) > MAX_MESSAGE_LENGTH
        THEN full \o RESPONSE_TRUNCATED
        ELSE full

\* A variant that puts the delta in front.
Accumulate_in_front(full_response, content) ==
    LET full == content \o full_response
    IN  IF Len(full) > MAX_MESSAGE_LENGTH
        THEN Take(full, MAX_MESSAGE_LENGTH) \o RESPONSE_TRUNCATED
        ELSE full

Accumulate(full_response, content) ==
    LET full == full_response \o content
    IN  IF Len(full) > MAX_MESSAGE_LENGTH
        THEN Take(full, MAX_MESSAGE_LENGTH) \o RESPONSE_TRUNCATED
        ELSE full

\* self.messages[-1] = {"role": "assistant", "content": full_response}
\* on a list that is not empty (lines 1252, 1313, 1351).
StoreLast(msgs, full_response) ==
    [msgs EXCEPT ![Len(msgs)] = Message("assistant", full_response)]

Finish(s, i) == [s EXCEPT !.threads[i].pc = "done"]

\* "if not full_response: add_system_message(...)" at the end of both
\* request functions, and the return.
FinalCheck(s, i) ==
    IF s.threads[i].full_response = <<>>
    THEN Finish(add_system_message(s, NO_VALID_RESPONSE), i)
    ELSE Finish(s, i)

\* openai.ChatCompletion.create of send_openai_request (lines 1228-1237) and
\* the two except clauses it can end in.  The profile is read here.
openai_create(s, i, outcome) ==
    IF outcome = "api_error"
    THEN Finish(add_system_message(s, API_ERROR \o CONNECTION_ERROR), i)
    ELSE IF outcome = "error"
    THEN Finish(add_system_message(s, ERROR_OCCURRED \o CONNECTION_ERROR), i)
    ELSE [s EXCEPT !.threads[i].pc = "stream",
                   !.threads[i].request = Some(s.current_config)]

\* One iteration of "for chunk in response" of send_openai_request, or its end
\* (lines 1240-1263).
openai_chunk(s, i, chunk) ==
    IF chunk.kind = "content"
    THEN LET full_response == Accumulate(s.threads[i].full_response, chunk.content)
             s1 == [s EXCEPT !.threads[i].full_response = full_response]
         IN  IF s.messages = <<>>
             THEN Finish(add_system_message(s1, ERROR_OCCURRED \o INDEX_ERROR), i)
             ELSE [s1 EXCEPT !.messages = StoreLast(s.messages, full_response)]
    ELSE IF chunk.kind = "none_content"
    THEN Finish(add_system_message(s, ERROR_OCCURRED \o NONE_TYPE), i)
    ELSE IF chunk.kind = "error"
    THEN Finish(add_system_message(s, ERROR_OCCURRED \o CONNECTION_ERROR), i)
    ELSE IF chunk.kind = "end" THEN FinalCheck(s, i)
    ELSE s

\* The request of send_curl_request is built and posted (lines 1268-1298): the
\* profile is read, the thread then waits for the response.
curl_post(s, i) ==
    [s EXCEPT !.threads[i].pc = "posted",
              !.threads[i].request = Some(s.current_config)]

\* requests.post returns or raises, the status check, and the single-shot
\* dialect (lines 1293-1321, 1370-1373).  The dialect is decided by the
\* profile that is current now.
curl_response(s, i, response) ==
    IF response.kind = "refused"
    THEN Finish(add_system_message(s, NETWORK_ERROR \o CONNECTION_ERROR), i)
    ELSE IF response.kind = "status"
    THEN Finish(add_system_message(s, API_ERROR \o HTTP_500 \o response.content), i)
    ELSE IF s.current_config.is_infini
    THEN IF response.kind = "bad_json"
         THEN Finish(add_system_message(s, RESPONSE_PARSE_ERROR \o JSON_ERROR), i)
         ELSE IF response.kind = "no_choices"
         THEN Finish(add_system_message(s, NO_VALID_RESPONSE), i)
         ELSE IF response.kind = "no_message"
         THEN Finish(add_system_message(s, INCOMPATIBLE), i)
         ELSE IF s.messages = <<>>
         THEN Finish(add_system_message(s, RESPONSE_PARSE_ERROR \o INDEX_ERROR), i)
         ELSE Finish([s EXCEPT !.threads[i].full_response = response.content,
                               !.messages = StoreLast(s.messages, response.content)], i)
    ELSE [s EXCEPT !.threads[i].pc = "stream"]

\* A line loop that breaks on an exception without reporting it.
curl_line_quiet(s, i, line) ==
    IF line.kind = "content"
    THEN LET full_response == Accumulate(s.threads[i].full_response, line.content)
             s1 == [s EXCEPT !.threads[i].full_response = full_response]
         IN  IF s.messages = <<>>
             THEN FinalCheck(s1, i)
             ELSE LET s2 == [s1 EXCEPT !.messages = StoreLast(s.messages, full_response)]
                  IN  IF line.finish THEN FinalCheck(s2, i) ELSE s2
    ELSE IF line.kind = "none_content"
    THEN FinalCheck(s, i)
    ELSE IF line.kind = "error"
    THEN Finish(add_system_message(s, NETWORK_ERROR \o CONNECTION_ERROR), i)
    ELSE IF line.kind = "end" THEN FinalCheck(s, i)
    ELSE IF line.kind = "no_content" /\ line.finish THEN FinalCheck(s, i)
    ELSE s

\* One iteration of "for line in response.iter_lines()" of send_curl_request,
\* or its end (lines 1324-1373).
curl_line(s, i, line) ==
    IF line.kind = "content"
    THEN LET full_response == Accumulate(s.threads[i].full_response, line.content)
             s1 == [s EXCEPT !.threads[i].full_response = full_response]
         IN  IF s.messages = <<>>
             THEN FinalCheck(add_system_message(s1, PARSE_ERROR \o INDEX_ERROR), i)
             ELSE LET s2 == [s1 EXCEPT !.messages = StoreLast(s.messages, full_response)]
                  IN  IF line.finish THEN FinalCheck(s2, i) ELSE s2
    ELSE IF line.kind = "none_content"
    THEN FinalCheck(add_system_message(s, PARSE_ERROR \o NONE_TYPE), i)
    ELSE IF line.kind = "error"
    THEN Finish(add_system_message(s, NETWORK_ERROR \o CONNECTION_ERROR), i)
    ELSE IF line.kind = "end" THEN FinalCheck(s, i)
    ELSE IF line.kind = "no_content" /\ line.finish THEN FinalCheck(s, i)
    ELSE s

-----------------------------------------------------------------------------
(* The selectors: select_file_tui, select_provider_tui, view_history_tui.    *)
(* A selector is the record of its local variables; height is what           *)
(* getmaxyx answers, result what the function returns, done whether it has   *)
(* returned.                                                                 *)

\* "/": the root of the file system
ROOT == <<47>>

\* The directories of the disk, and what iterdir lists in each, sorted as
\* line 167 sorts: directories first, then by name.  / holds the
\* directories d and e and the file n, /d the files a, b, c, and /e nothing.
DirEntries(dir) ==
    IF dir = ROOT
    THEN << [name |-> <<100>>, is_dir |-> TRUE], [name |-> <<101>>, is_dir |-> TRUE],
            [name |-> <<110>>, is_dir |-> FALSE] >>
    ELSE IF dir = ROOT \o <<101>> THEN <<>>
    ELSE << [name |-> <<97>>, is_dir |-> FALSE], [name |-> <<98>>, is_dir |-> FALSE],
            [name |-> <<99>>, is_dir |-> FALSE] >>

\* The position of the last "/" of a path.
RECURSIVE LastSlash(_, _)
LastSlash(path, i) ==
    IF i = 0 THEN 0 ELSE IF path[i] = 47 THEN i ELSE LastSlash(path, i - 1)

\* Path.parent: the root is its own parent.
Parent(path) ==
    LET i == LastSlash(path, Len(path))
    IN  IF i <= 1 THEN ROOT ELSE Take(path, i - 1)

\* The path of an entry of a directory (Path / name).
Join(dir, name) == IF dir = ROOT THEN dir \o name ELSE dir \o <<47>> \o name

\* The files of HISTORY_DIR in the order of their modification times.
HistoryFiles(dir) ==
    CHOOSE files \in [1..Cardinality(DOMAIN dir) -> DOMAIN dir] :
        \A i, j \in DOMAIN files : i # j => files[i] # files[j]

\* The local variables of a selector at its first iteration.
Selector(kind, current_dir, entries, height) ==
    [kind |-> kind, current_dir |-> current_dir, entries |-> entries,
     selected_index |-> 0, scroll_offset |-> 0, height |-> height,
     done |-> FALSE, result |-> NoneVal, exc |-> NoExc]

\* A move that wraps around and leaves the window where it is.
MoveSelection_wrapping(sel, key) ==
    LET count == Len(sel.entries)
    IN  IF key = KEY_UP
        THEN [sel EXCEPT !.selected_index = (@ + count - 1) % count]
        ELSE IF key = KEY_DOWN
        THEN [sel EXCEPT !.selected_index = (@ + 1) % count]
        ELSE sel

\* The branches of KEY_UP and KEY_DOWN, the same in the three selectors
\* (lines 212-219, 306-313, 438-445).
MoveSelection(sel, key) ==
    LET max_visible == sel.height - 3
    IN  IF key = KEY_UP /\ sel.selected_index > 0
        THEN LET selected_index == sel.selected_index - 1
             IN  [sel EXCEPT !.selected_index = selected_index,
                             !.scroll_offset = IF selected_index < @
                                               THEN selected_index ELSE @]
        ELSE IF key = KEY_DOWN /\ sel.selected_index < Len(sel.entries) - 1
        THEN LET selected_index == sel.selected_index + 1
             IN  [sel EXCEPT !.selected_index = selected_index,
                             !.scroll_offset = IF selected_index >= @ + max_visible
                                               THEN @ + 1 ELSE @]
        ELSE sel

Return(sel, result) == [sel EXCEPT !.done = TRUE, !.result = result]

\* A file selector that goes to the top of the list on every KEY_LEFT.
select_file_tui_reset(sel, key) ==
    IF key = KEY_LEFT
    THEN [sel EXCEPT !.current_dir = Parent(@),
                     !.entries = DirEntries(Parent(sel.current_dir)),
                     !.selected_index = 0, !.scroll_offset = 0]
    ELSE MoveSelection(sel, key)

\* One key of select_file_tui (lines 210-241).
select_file_tui(sel, key) ==
    IF key \in {KEY_UP, KEY_DOWN} THEN MoveSelection(sel, key)
    ELSE IF key = KEY_LEFT
    THEN IF sel.current_dir # Parent(sel.current_dir)
         THEN [sel EXCEPT !.current_dir = Parent(@),
                          !.entries = DirEntries(Parent(sel.current_dir)),
                          !.selected_index = 0, !.scroll_offset = 0]
         ELSE sel
    ELSE IF key = KEY_RIGHT \/ key = K_NEWLINE
    THEN IF sel.selected_index >= Len(sel.entries)
         THEN [sel EXCEPT !.done = TRUE, !.exc = "IndexError"]
         ELSE LET selected_entry == sel.entries[sel.selected_index + 1]
                  path == Join(sel.current_dir, selected_entry.name)
              IN  IF selected_entry.is_dir
                  THEN [sel EXCEPT !.current_dir = path, !.entries = DirEntries(path),
                                   !.selected_index = 0, !.scroll_offset = 0]
                  ELSE Return(sel, Some(path))
    ELSE IF key = K_ESC THEN Return(sel, NoneVal)
    ELSE sel

\* One key of select_provider_tui (lines 303-321).
select_provider_tui(sel, key) ==
    IF key \in {KEY_UP, KEY_DOWN} THEN MoveSelection(sel, key)
    ELSE IF key = K_NEWLINE THEN Return(sel, Some(sel.entries[sel.selected_index + 1]))
    ELSE IF key = K_ESC THEN Return(sel, NoneVal)
    ELSE sel

\* One key of the list of view_history_tui (lines 435-451); Enter shows the
\* conversation and comes back to the list.
view_history_tui(sel, key) ==
    IF key \in {KEY_UP, KEY_DOWN} THEN MoveSelection(sel, key)
    ELSE IF key = K_ESC THEN Return(sel, NoneVal)
    ELSE sel

\* The selector a command opens: file, provider, history.
OpenSelector(s, command, cwd, height) ==
    IF StartsWith(command, <<102>>)
    THEN Selector("file", cwd, DirEntries(cwd), height)
    ELSE IF StartsWith(command, <<112>>)
    THEN Selector("provider", <<>>, s.configs, height)
    ELSE Selector("history", <<>>, HistoryFiles(s.history_dir), height)

SelectorKey(sel, key) ==
    IF sel.kind = "file" THEN select_file_tui(sel, key)
    ELSE IF sel.kind = "provider" THEN select_provider_tui(sel, key)
    ELSE view_history_tui(sel, key)

-----------------------------------------------------------------------------
(* The session: chat_ui's loop and the threads, and the bounds of the model. *)

\* Bounds of the model.
MaxTyped == 1       \* longest text typed into a buffer, in key events (Spec)
MaxMessages == 7    \* longest log the foreground still appends to
MaxThreads == 2     \* background threads started in one session

\* The profiles load_configurations returns: an OpenAI-style one, a custom
\* streaming one and a custom single-shot ("Infini") one.
LoadedConfigs ==
    << [name |-> <<65>>, model |-> <<109>>, request_type |-> "openai", is_infini |-> FALSE],
       [name |-> <<66>>, model |-> <<109>>, request_type |-> "curl", is_infini |-> FALSE],
       [name |-> <<67>>, model |-> <<110>>, request_type |-> "curl", is_infini |-> TRUE] >>

\* "hello world!": the text of a file on disk
FileText == <<104, 101, 108, 108, 111, 32, 119, 111, 114, 108, 100, 33>>

\* The paths the file selector can return, and the states of a path on disk.
Paths == { <<47, 110>> }
FileStates ==
    { [exists |-> FALSE, size |-> 0, readable |-> FALSE, content |-> <<>>, error |-> <<>>],
      [exists |-> TRUE, size |-> 12, readable |-> TRUE, content |-> FileText,
       error |-> <<>>],
      [exists |-> TRUE, size |-> MAX_FILE_SIZE + 1, readable |-> TRUE,
       content |-> FileText, error |-> <<>>],
      [exists |-> TRUE, size |-> 2, readable |-> FALSE, content |-> <<>>,
       error |-> PERMISSION_DENIED] }

\* The answers of the environment to one command: every command reads at
\* most one selector, and the purge reads the confirmation key and deletes.
Envs ==
    {NoEnv}
    \cup {[NoEnv EXCEPT !.selected_file = Some(q)] : q \in Paths}
    \cup {[NoEnv EXCEPT !.selected_config = Some(LoadedConfigs[n])] :
             n \in 1..Len(LoadedConfigs)}
    \cup {[NoEnv EXCEPT !.confirm_key = 121, !.write_ok = w] : w \in BOOLEAN}
    \cup {[NoEnv EXCEPT !.write_ok = FALSE]}

\* The keys that reach the character path in the current mode.
IsCharKey(key) ==
    /\ ~IsEnter(key) /\ key # K_ESC /\ ~IsBackspace(key)
    /\ key \notin {KEY_LEFT, KEY_RIGHT}
    /\ (~command_mode => key \notin {K_CTRL_L, KEY_UP, KEY_DOWN})

\* The bounds as guards of one key event; typed bounds the text typed into
\* a buffer (a longer text, which holds a file tag, is not cut into by
\* deleting), sends the messages submitted, logged the log the foreground
\* still appends to.
WithinBounds(key, env, typed, sends, logged) ==
    /\ Len(messages) < logged
    /\ (IsCharKey(key) =>
            Len(IF command_mode THEN command_input ELSE current_input) < typed)
    /\ (IsBackspace(key) =>
            Len(IF command_mode THEN command_input ELSE current_input) <= typed + 1)
    /\ (env.selected_file # NoneVal => Len(saved_input) <= typed)
    /\ (IsEnter(key) /\ ~command_mode => Len(threads) < sends)

\* What the last step was: a key event (the key, and the mode it came in) or
\* a thread step (the thread, and what the network delivered to it).
Observed(op, key, thread, event, content) ==
    [op |-> op, key |-> key, command_mode |-> command_mode, thread |-> thread,
     event |-> event, content |-> content]

\* The main buffer and the collections as they are now.
Snapshot ==
    [current_input |-> current_input, cursor_pos |-> cursor_pos,
     messages |-> messages, input_history |-> input_history,
     history_index |-> history_index, file_placeholders |-> file_placeholders]

\* One iteration of the loop of chat_ui (lines 1615-1620), from the key
\* that getch returns to the next call of getch: the key is processed; the
\* loop leaves when process_input returns True, and an exception that
\* escapes process_input ends the session; otherwise ui.redraw() of the
\* next iteration is requested.
LoopBody(s0, key, env) ==
    \E s1 \in {process_input([s0 EXCEPT !.drawn = NotDrawn], key, env)} :
        \E s2 \in {IF s1.exc = NoExc /\ ~s1.ret THEN redraw(s1, FALSE) ELSE s1} :
            /\ Becomes(s2)
            /\ running' = (s1.exc = NoExc /\ ~s1.ret)
            /\ escaped' = s1.exc
            /\ last' = Observed("key", key, 0, "none", <<>>)
            /\ entry' = IF s1.command_mode
                        THEN (IF command_mode THEN entry ELSE Some(Snapshot))
                        ELSE NoneVal

\* getch() returns a key the user types now; ahead is what the user has
\* typed behind it already.
KeyPress(key, ahead, env, typed, sends, logged) ==
    /\ running
    /\ pending = <<>>
    /\ selector = NoneVal
    /\ WithinBounds(key, env, typed, sends, logged)
    /\ LoopBody([Self EXCEPT !.pending = ahead], key, env)
    /\ UNCHANGED selector

\* getch() returns the key at the head of the input queue.
KeyQueued(env, typed, sends, logged) ==
    /\ running
    /\ pending # <<>>
    /\ selector = NoneVal
    /\ WithinBounds(Head(pending), env, typed, sends, logged)
    /\ LoopBody([Self EXCEPT !.pending = Tail(pending)], Head(pending), env)
    /\ UNCHANGED selector

\* What the network delivers to a thread in one step.
Chunk(kind, content, finish) == [kind |-> kind, content |-> content, finish |-> finish]

\* A step of thread i.  A thread lives as long as the process: the threads
\* are daemon threads.
ThreadStep(i, s1, event) ==
    /\ running
    /\ Becomes(s1)
    /\ UNCHANGED <<running, escaped, entry, selector>>
    /\ last' = Observed("thread", 0, i, event.kind, event.content)

OpenAICreate(i, outcome) ==
    /\ i \in 1..Len(threads)
    /\ threads[i].target = "send_openai_request" /\ threads[i].pc = "start"
    /\ ThreadStep(i, openai_create(Self, i, outcome), Chunk(outcome, <<>>, FALSE))

OpenAIChunk(i, chunk) ==
    /\ i \in 1..Len(threads)
    /\ threads[i].target = "send_openai_request" /\ threads[i].pc = "stream"
    /\ ThreadStep(i, openai_chunk(Self, i, chunk), chunk)

CurlPost(i) ==
    /\ i \in 1..Len(threads)
    /\ threads[i].target = "send_curl_request" /\ threads[i].pc = "start"
    /\ ThreadStep(i, curl_post(Self, i), Chunk("post", <<>>, FALSE))

CurlResponse(i, response) ==
    /\ i \in 1..Len(threads)
    /\ threads[i].target = "send_curl_request" /\ threads[i].pc = "posted"
    /\ ThreadStep(i, curl_response(Self, i, response), response)

CurlLine(i, line) ==
    /\ i \in 1..Len(threads)
    /\ threads[i].target = "send_curl_request" /\ threads[i].pc = "stream"
    /\ ThreadStep(i, curl_line(Self, i, line), line)

\* The profiles the session can start with (the selection of __main__).
StartConfigs == {LoadedConfigs[n] : n \in 1..2}

\* The state when the loop of chat_ui is entered (ChatUI.__init__, then the
\* three notices of lines 1610-1612): configs is the loaded list with the
\* selected profile inserted in front (line 1681).
Entered(loaded, selected, dir, given) ==
    [messages |-> << Message("system", Take(TIP1, MAX_MESSAGE_LENGTH) \o SYSTEM_TRUNCATED),
                     Message("system", Take(TIP2, MAX_MESSAGE_LENGTH) \o SYSTEM_TRUNCATED),
                     Message("system", Take(TIP3, MAX_MESSAGE_LENGTH) \o SYSTEM_TRUNCATED) >>,
     input_history |-> <<>>, history_index |-> -1, current_input |-> <<>>,
     cursor_pos |-> 0, file_placeholders |-> <<>>, command_mode |-> FALSE,
     command_input |-> <<>>, command_cursor_pos |-> 0, saved_input |-> <<>>,
     saved_cursor_pos |-> 0, current_config |-> selected,
     configs |-> <<selected>> \o loaded, threads |-> <<>>, history_dir |-> dir,
     pending |-> <<>>, now |-> 0, last_redraw_time |-> 0,
     drawn |-> [forced |-> TRUE, unforced |-> "dropped"], args |-> given,
     ret |-> FALSE, exc |-> NoExc]

\* The variables are the fields of the record s.
StateIs(s) ==
    /\ messages = s.messages
    /\ input_history = s.input_history
    /\ history_index = s.history_index
    /\ current_input = s.current_input
    /\ cursor_pos = s.cursor_pos
    /\ file_placeholders = s.file_placeholders
    /\ command_mode = s.command_mode
    /\ command_input = s.command_input
    /\ command_cursor_pos = s.command_cursor_pos
    /\ saved_input = s.saved_input
    /\ saved_cursor_pos = s.saved_cursor_pos
    /\ configs = s.configs
    /\ current_config = s.current_config
    /\ threads = s.threads
    /\ history_dir = s.history_dir
    /\ pending = s.pending
    /\ now = s.now
    /\ last_redraw_time = s.last_redraw_time
    /\ drawn = s.drawn
    /\ args = s.args

\* A session of LoadedConfigs that was started with the name of the selected
\* profile as --provider.
InitOn(selected, dir) ==
    /\ StateIs(Entered(LoadedConfigs, selected, dir,
                       [provider |-> Some(selected.name), model |-> NoneVal]))
    /\ selector = NoneVal
    /\ running = TRUE
    /\ escaped = NoExc
    /\ last = [op |-> "init", key |-> 0, command_mode |-> FALSE, thread |-> 0,
               event |-> "none", content |-> <<>>]
    /\ entry = NoneVal

\* A session that finds HISTORY_DIR empty.
InitWith(selected) == InitOn(selected, <<>>)

Init == \E selected \in StartConfigs : InitWith(selected)

-----------------------------------------------------------------------------
(* The screen: textwrap.wrap, display_messages, update_last_message.  Every  *)
(* character is taken to fill one column.                                    *)

\* TextWrapper._munge_whitespace: each whitespace character becomes a space
\* (the texts of the model hold no tab to expand).
Munge(text) == [i \in DOMAIN text |-> IF IsSpace(text[i]) THEN 32 ELSE text[i]]

\* TextWrapper._split: the maximal runs of spaces and of other characters
\* (the texts of the model hold no hyphen to break at).
RECURSIVE Chunks(_, _, _)
Chunks(text, chunk, acc) ==
    IF text = <<>> THEN (IF chunk = <<>> THEN acc ELSE Append(acc, chunk))
    ELSE IF chunk # <<>> /\ IsSpace(chunk[1]) # IsSpace(Head(text))
         THEN Chunks(Tail(text), <<Head(text)>>, Append(acc, chunk))
         ELSE Chunks(Tail(text), Append(chunk, Head(text)), acc)

\* chunk.strip() == ''
IsBlank(chunk) == \A i \in DOMAIN chunk : IsSpace(chunk[i])

\* ''.join(cur_line)
RECURSIVE JoinChunks(_)
JoinChunks(cur_line) ==
    IF cur_line = <<>> THEN <<>> ELSE Head(cur_line) \o JoinChunks(Tail(cur_line))

\* The inner loop of _wrap_chunks: the chunks that fit on the current line.
RECURSIVE FillLine(_, _, _, _)
FillLine(chunks, cur_line, cur_len, width) ==
    IF chunks # <<>> /\ cur_len + Len(Head(chunks)) <= width
    THEN FillLine(Tail(chunks), Append(cur_line, Head(chunks)),
                  cur_len + Len(Head(chunks)), width)
    ELSE [cur_line |-> cur_line, cur_len |-> cur_len, chunks |-> chunks]

\* TextWrapper._wrap_chunks with the defaults (drop_whitespace,
\* break_long_words), width >= 1.
RECURSIVE WrapChunks(_, _, _)
WrapChunks(chunks, lines, width) ==
    IF chunks = <<>> THEN lines
    ELSE LET first == IF IsBlank(Head(chunks)) /\ lines # <<>> THEN Tail(chunks) ELSE chunks
             fit == FillLine(first, <<>>, 0, width)
             long == fit.chunks # <<>> /\ Len(fit.chunks[1]) > width
             space_left == width - fit.cur_len
             cur_line == IF long THEN Append(fit.cur_line, Take(fit.chunks[1], space_left))
                         ELSE fit.cur_line
             rest == IF long THEN <<Drop(fit.chunks[1], space_left)>> \o Tail(fit.chunks)
                     ELSE fit.chunks
             kept == IF cur_line # <<>> /\ IsBlank(cur_line[Len(cur_line)])
                     THEN SubSeq(cur_line, 1, Len(cur_line) - 1) ELSE cur_line
         IN  WrapChunks(rest, IF kept # <<>> THEN Append(lines, JoinChunks(kept)) ELSE lines,
                        width)

\* textwrap.wrap(text, width)
Wrap(text, width) == WrapChunks(Chunks(Munge(text), <<>>, <<>>), <<>>, width)

\* "用户: ", "AI: ", "系统: ": the labels of the roles
PREFIX_USER == <<29992, 25143, 58, 32>>
PREFIX_AI == <<65, 73, 58, 32>>
PREFIX_SYSTEM == <<31995, 32479, 58, 32>>
\* "```文件内容:", "文件内容:" and "```"
FILE_MARKER == <<96, 96, 96, 25991, 20214, 20869, 23481, 58>>
FILE_LABEL == <<25991, 20214, 20869, 23481, 58>>
FENCE == <<96, 96, 96>>

\* text.split(sep), sep non-empty
RECURSIVE SplitOn(_, _)
SplitOn(text, sep) ==
    LET i == FindFrom(text, sep, 1)
    IN  IF i = 0 THEN <<text>>
        ELSE <<SubSeq(text, 1, i - 1)>>
             \o SplitOn(SubSeq(text, i + Len(sep), Len(text)), sep)

\* text.split(sep, 1)
SplitOnce(text, sep) ==
    LET i == FindFrom(text, sep, 1)
    IN  IF i = 0 THEN <<text>>
        ELSE <<SubSeq(text, 1, i - 1), SubSeq(text, i + Len(sep), Len(text))>>

\* The file-content branch (lines 659-669): the lines of the parts, neither
\* labelled with the role nor wrapped.
RECURSIVE FileParts(_, _)
FileParts(parts, i) ==
    IF i > Len(parts) THEN <<>>
    ELSE (IF i > 1
          THEN LET file_part == SplitOnce(parts[i], FENCE)
               IN  IF Len(file_part) > 1
                   THEN <<FILE_LABEL \o file_part[1], file_part[2]>>
                   ELSE <<FILE_LABEL \o file_part[1]>>
          ELSE <<parts[i]>>)
         \o FileParts(parts, i + 1)

\* Lines 681-690: each line of the content wrapped, an empty line kept.
RECURSIVE WrappedLines(_, _)
WrappedLines(lines, width) ==
    IF lines = <<>> THEN <<>>
    ELSE LET wrapped_lines == Wrap(Head(lines), width)
         IN  (IF wrapped_lines # <<>> THEN wrapped_lines ELSE << <<>> >>)
             \o WrappedLines(Tail(lines), width)

\* The lines of one message (lines 643-690 and 1502-1548); the colours are
\* left out.
MessageLines(msg, table, width) ==
    LET prefix == IF msg.role = "user" THEN PREFIX_USER
                  ELSE IF msg.role = "assistant" THEN PREFIX_AI
                  ELSE PREFIX_SYSTEM
    IN  IF Contains(msg.content, FILE_MARKER)
        THEN FileParts(SplitOn(msg.content, FILE_MARKER), 1)
        ELSE WrappedLines(SplitOn(prefix \o RestorePlaceholders(msg.content, table), <<10>>),
                          width)

\* display_lines of display_messages (lines 641-690)
RECURSIVE display_lines(_, _, _)
display_lines(msgs, table, width) ==
    IF msgs = <<>> THEN <<>>
    ELSE MessageLines(Head(msgs), table, width) \o display_lines(Tail(msgs), table, width)

\* stdscr.addstr from the first column of row y on the rows of the message
\* pane: the characters overwrite the cells of the row, a line feed clears
\* the rest of the row and goes to the row below.  What falls below the pane
\* is cleared by display_input (lines 710-712).
addstr(rows, y, text) ==
    LET segments == SplitOn(text, <<10>>)
    IN  [r \in DOMAIN rows |->
            IF r - y + 1 \in 1..Len(segments)
            THEN IF r - y + 1 < Len(segments)
                 THEN segments[r - y + 1]
                 ELSE segments[r - y + 1] \o Drop(rows[r], Len(segments[r - y + 1]))
            ELSE rows[r]]

\* ChatUI.safe_addstr at column 0: text[:self.width-1]
safe_addstr(rows, y, text, width) == addstr(rows, y, Take(text, width - 1))

\* The loop of lines 699-703.
RECURSIVE DrawUp(_, _, _, _, _, _)
DrawUp(rows, lines, line_index, row, start_line, width) ==
    IF row >= start_line /\ line_index >= 1
    THEN DrawUp(safe_addstr(rows, row, lines[line_index], width), lines,
                line_index - 1, row - 1, start_line, width)
    ELSE rows

\* ChatUI.display_messages: what the rows of the pane show after it, from
\* row start_line to row end_line - 1.
display_messages(s, height, width) ==
    LET start_line == 2
        end_line == height - 3
        lines == display_lines(s.messages, s.file_placeholders, width)
    IN  DrawUp([i \in start_line..(end_line - 1) |-> <<>>], lines, Len(lines),
               end_line - 1, start_line, width)

\* lines_to_clear of update_last_message (lines 1475-1483)
RECURSIVE lines_to_clear(_, _)
lines_to_clear(msgs, width) ==
    IF msgs = <<>> THEN 0
    ELSE (IF Head(msgs).role = "system" THEN 0
          ELSE Max(1, (Len(Head(msgs).content) \div width) + 1))
         + lines_to_clear(Tail(msgs), width)

\* messages[-2:]
LastTwo(msgs) == SubSeq(msgs, Max(1, Len(msgs) - 1), Len(msgs))

\* The first row update_last_message clears (line 1486).
clear_start(s, height, width) ==
    Max(2, (height - 3) - lines_to_clear(LastTwo(s.messages), width) - 2)

\* ChatUI.update_last_message on a pane that shows rows: the rows from
\* clear_start are cleared, and the loop of lines 1557-1561 draws from
\* row end_line - 1 while row >= max_row, both being height - 4.
update_last_message(s, rows, height, width) ==
    LET end_line == height - 3
        max_row == height - 4
        cleared == [i \in DOMAIN rows |->
                       IF i >= clear_start(s, height, width) THEN <<>> ELSE rows[i]]
        lines == display_lines(SelectSeq(LastTwo(s.messages), LAMBDA msg : msg.role # "system"),
                               s.file_placeholders, width)
    IN  DrawUp(cleared, lines, Len(lines), end_line - 1, max_row, width)

-----------------------------------------------------------------------------
(* The start of the program: load_configurations and the selection of       *)
(* __main__.                                                                 *)

\* str.lower() on the letters A-Z, the capitals of the model's texts
Lower(text) == [i \in DOMAIN text |-> IF text[i] \in 65..90 THEN text[i] + 32 ELSE text[i]]

\* text.split(sep, maxsplit)
RECURSIVE SplitMax(_, _, _)
SplitMax(text, sep, maxsplit) ==
    LET i == FindFrom(text, sep, 1)
    IN  IF maxsplit = 0 \/ i = 0 THEN <<text>>
        ELSE <<SubSeq(text, 1, i - 1)>>
             \o SplitMax(SubSeq(text, i + Len(sep), Len(text)), sep, maxsplit - 1)

\* "::", "#", "curl", "infini", "true"
FIELD_SEPARATOR == <<58, 58>>
COMMENT_SIGN == <<35>>
CURL == <<99, 117, 114, 108>>
INFINI == <<105, 110, 102, 105, 110, 105>>
TRUE_WORD == <<116, 114, 117, 101>>

\* One line of the configuration file (lines 82-134): the profile it gives,
\* NoneVal for a line that is skipped.  The headers are not part of the
\* model's profiles.
ParseLine(raw) ==
    LET line == Strip(raw)
        parts == SplitMax(line, FIELD_SEPARATOR, 6)
    IN  IF line = <<>> \/ StartsWith(line, COMMENT_SIGN) THEN NoneVal
        ELSE IF Len(parts) < 4 THEN NoneVal
        ELSE Some([name |-> Strip(parts[1]),
                   model |-> Strip(parts[4]),
                   request_type |-> IF Len(parts) > 4 /\ Lower(Strip(parts[5])) = CURL
                                    THEN "curl" ELSE "openai",
                   is_infini |-> Len(parts) > 6
                                 /\ Lower(Strip(parts[7])) \in {INFINI, TRUE_WORD}])

RECURSIVE ParseLines(_)
ParseLines(lines) ==
    IF lines = <<>> THEN <<>>
    ELSE ParseLine(Head(lines)) \o ParseLines(Tail(lines))

\* load_configurations: file is the configuration file, its lines when it
\* can be read.  The two branches of the default profile (lines 138-143)
\* raise TypeError: default_configs holds the key is_infini, which
\* ChatConfig.__init__ (line 36) does not take.
load_configurations(file) ==
    IF file.exists /\ file.readable
    THEN [configs |-> ParseLines(file.lines), exc |-> NoExc]
    ELSE [configs |-> <<>>, exc |-> "TypeError"]

\* bool(args.provider), bool(args.model): given and not empty
Truthy(option) == option # NoneVal /\ option[1] # <<>>

\* The loop of lines 1665-1671: the first profile that is not skipped.
RECURSIVE FirstMatching(_, _)
FirstMatching(cfgs, given) ==
    IF cfgs = <<>> THEN NoneVal
    ELSE LET config == Head(cfgs)
         IN  IF Truthy(given.provider)
                /\ Lower(config.name) # Lower(given.provider[1])
             THEN FirstMatching(Tail(cfgs), given)
             ELSE IF Truthy(given.model)
                     /\ Lower(config.model) # Lower(given.model[1])
             THEN FirstMatching(Tail(cfgs), given)
             ELSE Some(config)

\* Lines 1661-1678: selected_config, or the IndexError of configs[0].
select_config(cfgs, given) ==
    LET matched == IF Truthy(given.provider) \/ Truthy(given.model)
                   THEN FirstMatching(cfgs, given) ELSE NoneVal
    IN  IF matched # NoneVal THEN [selected_config |-> matched[1], exc |-> NoExc]
        ELSE IF cfgs = <<>> THEN [selected_config |-> NoneVal, exc |-> "IndexError"]
        ELSE [selected_config |-> cfgs[1], exc |-> NoExc]

-----------------------------------------------------------------------------
(* Spec: the whole session.  The user types messages over a one-letter       *)
(* alphabet and commands over the letters of the commands; the network      *)
(* delivers any of the outcomes to any thread at any time.                  *)

\* "a"
TextKeys == {97}
\* "c", "r": the command cr (clear), and unknown ones
CommandKeys == {99, 114}
\* "thought": a delta of a streamed response
Deltas == { <<116, 104, 111, 117, 103, 104, 116>> }

OpenAIChunks ==
    {Chunk("content", d, FALSE) : d \in Deltas}
    \cup {Chunk(k, <<>>, FALSE) : k \in {"no_content", "error", "end"}}

CurlResponses == {Chunk(k, <<>>, FALSE) : k \in {"ok", "refused"}}

CurlLines ==
    {Chunk("content", d, FALSE) : d \in Deltas}
    \cup {Chunk(k, <<>>, FALSE) : k \in {"not_json", "error", "end"}}

TypeText == ~command_mode /\ \E key \in TextKeys : KeyPress(key, <<>>, NoEnv, MaxTyped, MaxThreads, MaxMessages)

Submit ==
    /\ ~command_mode
    /\ \E fs \in [Paths -> FileStates] :
           KeyPress(K_NEWLINE, <<>>, [NoEnv EXCEPT !.files = fs], MaxTyped, MaxThreads, MaxMessages)

EnterCommand == ~command_mode /\ KeyPress(K_CTRL_L, <<>>, NoEnv, MaxTyped, MaxThreads, MaxMessages)

LeaveSession == ~command_mode /\ KeyPress(K_ESC, <<>>, NoEnv, MaxTyped, MaxThreads, MaxMessages)

TypeCommand == command_mode /\ \E key \in CommandKeys : KeyPress(key, <<>>, NoEnv, MaxTyped, MaxThreads, MaxMessages)

RunCommand == command_mode /\ \E env \in Envs : KeyPress(K_NEWLINE, <<>>, env, MaxTyped, MaxThreads, MaxMessages)

CancelCommand == command_mode /\ KeyPress(K_ESC, <<>>, NoEnv, MaxTyped, MaxThreads, MaxMessages)

Background ==
    \E i \in 1..MaxThreads :
        \/ \E outcome \in {"ok", "error"} : OpenAICreate(i, outcome)
        \/ \E chunk \in OpenAIChunks : OpenAIChunk(i, chunk)
        \/ CurlPost(i)
        \/ \E response \in CurlResponses : CurlResponse(i, response)
        \/ \E line \in CurlLines : CurlLine(i, line)

Next ==
    \/ TypeText
    \/ Submit
    \/ EnterCommand
    \/ LeaveSession
    \/ TypeCommand
    \/ RunCommand
    \/ CancelCommand
    \/ Background

Spec == Init /\ [][Next]_vars

-----------------------------------------------------------------------------
(* SpecInput: the foreground alone, over whole rounds.  The user edits both  *)
(* buffers, selects files, recalls, submits and runs commands; the network   *)
(* stays silent, so the threads that were started wait.                      *)

MaxEdit == 2        \* longest text typed into a buffer, in key events (SpecInput)
MaxSubmits == 1     \* messages submitted (SpecInput)
MaxLog == 4         \* longest log a submission or a command is run on (SpecInput)

\* Editing goes on after the last submission, which appends two messages.
MaxLogEdit == MaxLog + 2

\* "a" in Normal mode, "f" (select-file) in CommandEntry mode
InputChars == IF command_mode THEN {102} ELSE {97}
\* The answers of the file selector.
InputEnvs == {NoEnv} \cup {[NoEnv EXCEPT !.selected_file = Some(q)] : q \in Paths}

InputChar == \E key \in InputChars : KeyPress(key, <<>>, NoEnv, MaxEdit, MaxSubmits, MaxLogEdit)

InputMove == \E key \in {KEY_LEFT, KEY_RIGHT} : KeyPress(key, <<>>, NoEnv, MaxEdit, MaxSubmits, MaxLogEdit)

InputDelete == \E key \in {KEY_BACKSPACE, K_DEL} : KeyPress(key, <<>>, NoEnv, MaxEdit, MaxSubmits, MaxLogEdit)

InputRecall == \E key \in {KEY_UP, KEY_DOWN} : KeyPress(key, <<>>, NoEnv, MaxEdit, MaxSubmits, MaxLogEdit)

InputSubmit ==
    /\ ~command_mode
    /\ \E fs \in [Paths -> FileStates] :
           KeyPress(K_RETURN, <<>>, [NoEnv EXCEPT !.files = fs], MaxEdit, MaxSubmits, MaxLog)

InputEnterCommand == ~command_mode /\ KeyPress(K_CTRL_L, <<>>, NoEnv, MaxEdit, MaxSubmits, MaxLogEdit)

InputRunCommand ==
    command_mode /\ \E env \in InputEnvs : KeyPress(KEY_ENTER, <<>>, env, MaxEdit, MaxSubmits, MaxLog)

InputCancelCommand == command_mode /\ KeyPress(K_ESC, <<>>, NoEnv, MaxEdit, MaxSubmits, MaxLogEdit)

InputLeave == ~command_mode /\ KeyPress(K_ESC, <<>>, NoEnv, MaxEdit, MaxSubmits, MaxLogEdit)

NextInput ==
    \/ InputChar
    \/ InputMove
    \/ InputDelete
    \/ InputRecall
    \/ InputSubmit
    \/ InputEnterCommand
    \/ InputRunCommand
    \/ InputCancelCommand
    \/ InputLeave

InitInput == InitWith(LoadedConfigs[1])

SpecInput == InitInput /\ [][NextInput]_vars

-----------------------------------------------------------------------------
(* SpecEdit: the two buffers.  Every editing key in both modes, multi-byte   *)
(* characters and keys typed ahead, and the file selector appending its tag; *)
(* nothing is submitted and no command but select-file is run.               *)

MaxText == 2        \* longest text typed into a buffer, in key events (SpecEdit)

\* 0xC3, the lead byte of a two-byte sequence, and what may follow it
LeadByte == 195
Aheads == { <<>>, <<169, 97>>, <<97>>, <<KEY_UP, 97>> }

EditChar == \E key \in InputChars : KeyPress(key, <<>>, NoEnv, MaxText, 0, MaxLog)

EditBytes == ~command_mode /\ \E ahead \in Aheads : KeyPress(LeadByte, ahead, NoEnv, MaxText, 0, MaxLog)

EditQueued == KeyQueued(NoEnv, MaxText, 0, MaxLog)

EditMove == \E key \in {KEY_LEFT, KEY_RIGHT} : KeyPress(key, <<>>, NoEnv, MaxText, 0, MaxLog)

EditDelete == \E key \in {KEY_BACKSPACE, K_DEL} : KeyPress(key, <<>>, NoEnv, MaxText, 0, MaxLog)

EditEnterCommand == ~command_mode /\ KeyPress(K_CTRL_L, <<>>, NoEnv, MaxText, 0, MaxLog)

EditSelectFile ==
    /\ command_mode
    /\ StartsWith(command_input, <<102>>)
    /\ \E env \in InputEnvs : KeyPress(KEY_ENTER, <<>>, env, MaxText, 0, MaxLog)

EditCancelCommand == command_mode /\ KeyPress(K_ESC, <<>>, NoEnv, MaxText, 0, MaxLog)

EditLeave == ~command_mode /\ KeyPress(K_ESC, <<>>, NoEnv, MaxText, 0, MaxLog)

NextEdit ==
    \/ EditChar
    \/ EditBytes
    \/ EditQueued
    \/ EditMove
    \/ EditDelete
    \/ EditEnterCommand
    \/ EditSelectFile
    \/ EditCancelCommand
    \/ EditLeave

SpecEdit == InitInput /\ [][NextEdit]_vars

-----------------------------------------------------------------------------
(* SpecCommand: command lines.  The user enters CommandEntry mode, types a   *)
(* command over the letters of "exit" and the space, and submits or cancels. *)

MaxCommand == 4     \* longest command line typed (SpecCommand)
MaxNotices == 4     \* longest log appended to (SpecCommand)

\* "e", "x", "i", "t", " "
CommandChars == {101, 120, 105, 116, 32}

CommandOpen == ~command_mode /\ KeyPress(K_CTRL_L, <<>>, NoEnv, MaxCommand, 0, MaxNotices)

CommandChar ==
    command_mode
    /\ \E key \in CommandChars : KeyPress(key, <<>>, NoEnv, MaxCommand, 0, MaxNotices)

CommandRun == command_mode /\ KeyPress(K_NEWLINE, <<>>, NoEnv, MaxCommand, 0, MaxNotices)

CommandCancel == command_mode /\ KeyPress(K_ESC, <<>>, NoEnv, MaxCommand, 0, MaxNotices)

CommandLeave == ~command_mode /\ KeyPress(K_ESC, <<>>, NoEnv, MaxCommand, 0, MaxNotices)

NextCommand ==
    \/ CommandOpen
    \/ CommandChar
    \/ CommandRun
    \/ CommandCancel
    \/ CommandLeave

SpecCommand == InitInput /\ [][NextCommand]_vars

-----------------------------------------------------------------------------
(* SpecStream: one request.  The user submits one message and the network    *)
(* streams deltas of several lengths to the thread, in any order.           *)

\* "hi", "considering": a response passes the maximum by 1, by 2 or by 10
StreamDeltas ==
    { <<104, 105>>,
      <<99, 111, 110, 115, 105, 100, 101, 114, 105, 110, 103>> }

MaxStreamTyped == 1     \* longest text typed into the main buffer (SpecStream)
MaxRequests == 1        \* requests submitted (SpecStream)

StreamType ==
    ~command_mode
    /\ \E key \in TextKeys : KeyPress(key, <<>>, NoEnv, MaxStreamTyped, MaxRequests, MaxMessages)

StreamSubmit == ~command_mode /\ KeyPress(K_NEWLINE, <<>>, NoEnv, MaxStreamTyped, MaxRequests, MaxMessages)

StreamBackground ==
    \E i \in 1..MaxRequests :
        \/ OpenAICreate(i, "ok")
        \/ \E d \in StreamDeltas : OpenAIChunk(i, Chunk("content", d, FALSE))
        \/ \E k \in {"no_content", "end"} : OpenAIChunk(i, Chunk(k, <<>>, FALSE))
        \/ CurlPost(i)
        \/ CurlResponse(i, Chunk("ok", <<>>, FALSE))
        \/ \E d \in StreamDeltas, f \in BOOLEAN : CurlLine(i, Chunk("content", d, f))
        \/ \E k \in {"not_json", "end"} : CurlLine(i, Chunk(k, <<>>, FALSE))

NextStream == StreamType \/ StreamSubmit \/ StreamBackground

SpecStream == Init /\ [][NextStream]_vars

-----------------------------------------------------------------------------
(* SpecSend: what is transmitted.  The user pastes a text into the empty     *)
(* main buffer and submits it; the files the tags name are in any state.     *)

MaxPasted == 10     \* longest text pasted, in key events (SpecSend)
MaxSends == 2       \* messages submitted (SpecSend)

\* The log holds the three notices and two messages for every submission.
MaxSendLog == 2 * MaxSends + 4

\* The path of a tag written compactly, and with surrounding spaces.
TagBodies == Paths \cup {<<32>> \o q \o <<32>> : q \in Paths}

\* "a", and a tag in both writings
PastedTexts == {<<97>>} \cup {Tag(body) : body \in TagBodies}

\* A file of exactly the maximum size.
FullFile ==
    [exists |-> TRUE, size |-> MAX_FILE_SIZE, readable |-> TRUE, content |-> FileText,
     error |-> <<>>]

SendFileStates == FileStates \cup {FullFile}

SendPaste ==
    /\ ~command_mode
    /\ current_input = <<>>
    /\ \E text \in PastedTexts :
           KeyPress(Head(text), Tail(text), NoEnv, MaxPasted, MaxSends, MaxSendLog)

SendQueued == KeyQueued(NoEnv, MaxPasted, MaxSends, MaxSendLog)

SendSubmit ==
    /\ ~command_mode
    /\ \E fs \in [Paths -> SendFileStates] :
           KeyPress(K_RETURN, <<>>, [NoEnv EXCEPT !.files = fs], MaxPasted, MaxSends, MaxSendLog)

NextSend == SendPaste \/ SendQueued \/ SendSubmit

SpecSend == InitInput /\ [][NextSend]_vars

-----------------------------------------------------------------------------
(* SpecWindow: a long conversation.  One-letter messages are submitted and   *)
(* unknown commands put notices between them; no request is answered.        *)

MaxWindowSends == 6     \* messages submitted (SpecWindow)
MaxWindowNotices == 1   \* notices of unknown commands (SpecWindow)

\* The three notices of the start, then two messages for every submission.
MaxWindowLog == 3 + 2 * MaxWindowSends + MaxWindowNotices

\* "a", "b" as messages; "c" as the unknown command
WindowChars == IF command_mode THEN {99} ELSE {97, 98}

Notices(msgs) == Len(msgs) - Len(NonSystem(msgs))

WindowType ==
    \E key \in WindowChars : KeyPress(key, <<>>, NoEnv, 1, MaxWindowSends, MaxWindowLog)

WindowSubmit ==
    /\ ~command_mode
    /\ Len(messages) + 2 <= MaxWindowLog
    /\ KeyPress(K_RETURN, <<>>, NoEnv, 1, MaxWindowSends, MaxWindowLog)

WindowEnterCommand ==
    /\ ~command_mode
    /\ Notices(messages) < 3 + MaxWindowNotices
    /\ KeyPress(K_CTRL_L, <<>>, NoEnv, 1, MaxWindowSends, MaxWindowLog)

WindowRunCommand ==
    /\ command_mode
    /\ command_input # <<>>
    /\ KeyPress(KEY_ENTER, <<>>, NoEnv, 1, MaxWindowSends, MaxWindowLog)

NextWindow == WindowType \/ WindowSubmit \/ WindowEnterCommand \/ WindowRunCommand

SpecWindow == InitInput /\ [][NextWindow]_vars

-----------------------------------------------------------------------------
(* SpecHistory: the saved conversations.  A message that is a file tag is    *)
(* pasted and submitted, commands are pasted into the command line and run:  *)
(* save under a name, load by name, purge-history.  No request is answered.  *)

MaxHistSends == 1      \* messages submitted (SpecHistory)
MaxHistNotices == 5    \* notices in the log when a command is still begun (SpecHistory)
MaxHistCommand == 8    \* longest command, in characters (SpecHistory)

\* The notices, the two a command adds, two messages for every submission.
MaxHistLog == MaxHistNotices + 2 + 2 * MaxHistSends + 1

\* "n.json", the name the save command makes of "n"
HistoryName == <<110>> \o JSON_SUFFIX

\* s n | l n.json | cn
HistoryCommands == { <<115, 32, 110>>, <<108, 32>> \o HistoryName, <<99, 110>> }

\* What the confirmation key and the disk answer.
HistoryEnvs ==
    {[NoEnv EXCEPT !.confirm_key = k, !.write_ok = w] : k \in {110, 121, 89}, w \in BOOLEAN}

HistoryType ==
    /\ ~command_mode
    /\ current_input = <<>>
    /\ \E text \in {Tag(q) : q \in Paths} :
           KeyPress(Head(text), Tail(text), NoEnv, MaxHistCommand, MaxHistSends, MaxHistLog)

HistorySubmit ==
    /\ ~command_mode
    /\ KeyPress(K_RETURN, <<>>, NoEnv, MaxHistCommand, MaxHistSends, MaxHistLog)

HistoryEnterCommand ==
    /\ ~command_mode
    /\ Notices(messages) < MaxHistNotices
    /\ KeyPress(K_CTRL_L, <<>>, NoEnv, MaxHistCommand, MaxHistSends, MaxHistLog)

HistoryPaste ==
    /\ command_mode
    /\ command_input = <<>>
    /\ \E command \in HistoryCommands :
           KeyPress(Head(command), Tail(command), NoEnv,
                    MaxHistCommand, MaxHistSends, MaxHistLog)

HistoryQueued == KeyQueued(NoEnv, MaxHistCommand, MaxHistSends, MaxHistLog)

HistoryRun ==
    /\ command_mode
    /\ command_input # <<>>
    /\ \E env \in HistoryEnvs :
           KeyPress(KEY_ENTER, <<>>, env, 0, MaxHistSends, MaxHistLog)

NextHistory ==
    \/ HistoryType
    \/ HistorySubmit
    \/ HistoryEnterCommand
    \/ HistoryPaste
    \/ HistoryQueued
    \/ HistoryRun

SpecHistory == InitInput /\ [][NextHistory]_vars

-----------------------------------------------------------------------------
(* SpecRedraw: the screen.  Time passes between the keys; a message is typed *)
(* and submitted, commands of one letter are typed and run.                  *)

MaxTicks == 3          \* half throttle intervals after which the clock is not advanced (SpecRedraw)
MaxRedrawSends == 1    \* messages submitted (SpecRedraw)
MaxRedrawLog == 5      \* length of the log the foreground still appends to (SpecRedraw)

\* p (provider), h (history), c (an unknown command)
RedrawCommandChars == {112, 104, 99}

\* What the provider selector answers.
RedrawEnvs == {NoEnv, [NoEnv EXCEPT !.selected_config = Some(LoadedConfigs[2])]}

\* time.time() has advanced by half the throttle interval, or by all of it.
RedrawTick ==
    /\ running
    /\ now < MaxTicks * (REDRAW_THROTTLE \div 2)
    /\ \E d \in {REDRAW_THROTTLE \div 2, REDRAW_THROTTLE} : now' = now + d
    /\ UNCHANGED <<messages, input_history, history_index, current_input, cursor_pos,
                   file_placeholders, command_mode, command_input, command_cursor_pos,
                   saved_input, saved_cursor_pos, current_config, configs, threads, args,
                   history_dir, pending, last_redraw_time, drawn, selector, running,
                   escaped, last, entry>>

RedrawType ==
    /\ ~command_mode
    /\ KeyPress(97, <<>>, NoEnv, 1, MaxRedrawSends, MaxRedrawLog)

RedrawSubmit ==
    /\ ~command_mode
    /\ KeyPress(K_RETURN, <<>>, NoEnv, 1, MaxRedrawSends, MaxRedrawLog)

RedrawEnterCommand ==
    /\ ~command_mode
    /\ KeyPress(K_CTRL_L, <<>>, NoEnv, 1, MaxRedrawSends, MaxRedrawLog)

RedrawTypeCommand ==
    /\ command_mode
    /\ \E key \in RedrawCommandChars :
           KeyPress(key, <<>>, NoEnv, 1, MaxRedrawSends, MaxRedrawLog)

RedrawRun ==
    /\ command_mode
    /\ \E env \in RedrawEnvs :
           KeyPress(KEY_ENTER, <<>>, env, 1, MaxRedrawSends, MaxRedrawLog)

RedrawCancel ==
    /\ command_mode
    /\ KeyPress(K_ESC, <<>>, NoEnv, 1, MaxRedrawSends, MaxRedrawLog)

NextRedraw ==
    \/ RedrawTick
    \/ RedrawType
    \/ RedrawSubmit
    \/ RedrawEnterCommand
    \/ RedrawTypeCommand
    \/ RedrawRun
    \/ RedrawCancel

SpecRedraw == InitInput /\ [][NextRedraw]_vars

-----------------------------------------------------------------------------
(* SpecFailure: the requests that fail.  One message is submitted under any  *)
(* of the three profiles, and the network answers in every way the request   *)
(* functions distinguish.                                                    *)

MaxFailSends == 1      \* messages submitted (SpecFailure)
MaxFailLog == 6        \* length of the log the foreground still appends to (SpecFailure)

\* "ok": a delta of a streamed response, or the body of an error page
FailDeltas == { <<111, 107>> }

FailType ==
    /\ ~command_mode
    /\ KeyPress(97, <<>>, NoEnv, 1, MaxFailSends, MaxFailLog)

FailSubmit ==
    /\ ~command_mode
    /\ KeyPress(K_RETURN, <<>>, NoEnv, 1, MaxFailSends, MaxFailLog)

FailBackground ==
    \E i \in 1..MaxFailSends :
        \/ \E outcome \in {"ok", "api_error", "error"} : OpenAICreate(i, outcome)
        \/ \E d \in FailDeltas : OpenAIChunk(i, Chunk("content", d, FALSE))
        \/ \E k \in {"no_content", "none_content", "error", "end"} :
               OpenAIChunk(i, Chunk(k, <<>>, FALSE))
        \/ CurlPost(i)
        \/ \E k \in {"ok", "refused", "bad_json", "no_choices", "no_message"} :
               CurlResponse(i, Chunk(k, <<>>, FALSE))
        \/ \E d \in FailDeltas :
               CurlResponse(i, Chunk("status", d, FALSE))
        \/ \E d \in FailDeltas, f \in BOOLEAN : CurlLine(i, Chunk("content", d, f))
        \/ \E k \in {"not_json", "none_content", "error", "end"} :
               CurlLine(i, Chunk(k, <<>>, FALSE))

NextFailure == FailType \/ FailSubmit \/ FailBackground

InitFailure == \E n \in 1..Len(LoadedConfigs) : InitWith(LoadedConfigs[n])

SpecFailure == InitFailure /\ [][NextFailure]_vars

-----------------------------------------------------------------------------
(* SpecSelector: the selectors.  The commands f, p and h are typed in a      *)
(* session that found two saved conversations; the selector opens in the     *)
(* root or in /d on a terminal of four lines or more, and takes keys until   *)
(* it returns.                                                               *)

MaxHeight == 5         \* lines of the terminal (SpecSelector)
MaxSelectLog == 5      \* length of the log the foreground still appends to (SpecSelector)

\* m.json, n.json: two conversations saved by earlier sessions
SavedBefore ==
    LET file == SavedFile(0, Title(<<>>), LoadedConfigs[1].name, LoadedConfigs[1].model,
                          <<>>)
    IN  WriteFile(WriteFile(<<>>, <<109>> \o JSON_SUFFIX, file), HistoryName, file)

\* The directories the session can be started in.
WorkingDirs == {ROOT, ROOT \o <<100>>}

\* The keys the selectors look at.
SelectorKeys == {KEY_UP, KEY_DOWN, KEY_LEFT, KEY_RIGHT, K_NEWLINE, K_ESC}

\* What handle_command gets back from the selector.
Answer(sel) ==
    IF sel.kind = "file" THEN [NoEnv EXCEPT !.selected_file = sel.result]
    ELSE IF sel.kind = "provider" THEN [NoEnv EXCEPT !.selected_config = sel.result]
    ELSE NoEnv

SelectorEnterCommand ==
    /\ ~command_mode
    /\ KeyPress(K_CTRL_L, <<>>, NoEnv, 1, 0, MaxSelectLog)

SelectorTypeCommand ==
    /\ command_mode
    /\ \E key \in {102, 112, 104} : KeyPress(key, <<>>, NoEnv, 1, 0, MaxSelectLog)

\* Enter runs the command, which calls the selector: it draws its list and
\* waits for a key.
SelectorOpen ==
    /\ running
    /\ command_mode
    /\ command_input # <<>>
    /\ selector = NoneVal
    /\ pending = <<>>
    /\ \E cwd \in WorkingDirs, height \in 4..MaxHeight :
           selector' = Some(OpenSelector(Self, command_input, cwd, height))
    /\ UNCHANGED <<messages, input_history, history_index, current_input, cursor_pos,
                   file_placeholders, command_mode, command_input, command_cursor_pos,
                   saved_input, saved_cursor_pos, current_config, configs, threads, args,
                   history_dir, pending, now, last_redraw_time, drawn, running, escaped,
                   last, entry>>

\* A key that the selector handles without returning.
SelectorStep ==
    /\ selector # NoneVal
    /\ \E key \in SelectorKeys :
           /\ ~SelectorKey(selector[1], key).done
           /\ selector' = Some(SelectorKey(selector[1], key))
    /\ UNCHANGED <<messages, input_history, history_index, current_input, cursor_pos,
                   file_placeholders, command_mode, command_input, command_cursor_pos,
                   saved_input, saved_cursor_pos, current_config, configs, threads, args,
                   history_dir, pending, now, last_redraw_time, drawn, running, escaped,
                   last, entry>>

\* A key on which the selector returns: the command goes on with the answer.
SelectorReturn ==
    /\ running
    /\ selector # NoneVal
    /\ \E key \in SelectorKeys :
           LET sel == SelectorKey(selector[1], key)
           IN  /\ sel.done
               /\ sel.exc = NoExc
               /\ WithinBounds(KEY_ENTER, Answer(sel), 1, 0, MaxSelectLog)
               /\ LoopBody(Self, KEY_ENTER, Answer(sel))
    /\ selector' = NoneVal

NextSelector ==
    \/ SelectorEnterCommand
    \/ SelectorTypeCommand
    \/ SelectorOpen
    \/ SelectorStep
    \/ SelectorReturn

InitSelector == InitOn(LoadedConfigs[1], SavedBefore)

SpecSelector == InitSelector /\ [][NextSelector]_vars

-----------------------------------------------------------------------------
(* SpecRecall: the recall of submitted messages.  Messages of the letters a  *)
(* and b are typed, edited and submitted, and KEY_UP and KEY_DOWN walk       *)
(* through input_history; no request is answered.                            *)

MaxRecallTyped == 2    \* longest message typed (SpecRecall)
MaxRecallSends == 2    \* messages submitted (SpecRecall)
MaxRecallLog == 3 + 2 * MaxRecallSends

RecallType ==
    /\ ~command_mode
    /\ \E key \in {97, 98} :
           KeyPress(key, <<>>, NoEnv, MaxRecallTyped, MaxRecallSends, MaxRecallLog)

RecallDelete ==
    /\ ~command_mode
    /\ KeyPress(KEY_BACKSPACE, <<>>, NoEnv, MaxRecallTyped, MaxRecallSends, MaxRecallLog)

RecallSubmit ==
    /\ ~command_mode
    /\ KeyPress(K_RETURN, <<>>, NoEnv, MaxRecallTyped, MaxRecallSends, MaxRecallLog)

RecallPrevious ==
    /\ ~command_mode
    /\ KeyPress(KEY_UP, <<>>, NoEnv, MaxRecallTyped, MaxRecallSends, MaxRecallLog + 1)

RecallNext ==
    /\ ~command_mode
    /\ KeyPress(KEY_DOWN, <<>>, NoEnv, MaxRecallTyped, MaxRecallSends, MaxRecallLog + 1)

NextRecall ==
    \/ RecallType
    \/ RecallDelete
    \/ RecallSubmit
    \/ RecallPrevious
    \/ RecallNext

SpecRecall == InitInput /\ [][NextRecall]_vars

-----------------------------------------------------------------------------
(* SpecSubmit: SpecRecall and the history command.  Between the messages     *)
(* the command line is entered, h is typed and the command is run.           *)

SubmitEnterCommand ==
    /\ ~command_mode
    /\ KeyPress(K_CTRL_L, <<>>, NoEnv, MaxRecallTyped, MaxRecallSends, MaxRecallLog)

SubmitTypeCommand ==
    /\ command_mode
    /\ KeyPress(104, <<>>, NoEnv, 1, MaxRecallSends, MaxRecallLog)

SubmitRunCommand ==
    /\ command_mode
    /\ command_input # <<>>
    /\ KeyPress(K_RETURN, <<>>, NoEnv, 1, MaxRecallSends, MaxRecallLog)

NextSubmit ==
    \/ RecallType
    \/ RecallDelete
    \/ RecallSubmit
    \/ RecallPrevious
    \/ RecallNext
    \/ SubmitEnterCommand
    \/ SubmitTypeCommand
    \/ SubmitRunCommand

SpecSubmit == InitInput /\ [][NextSubmit]_vars

-----------------------------------------------------------------------------
(* SpecMode: the two modes.  A message of a letter or a space is typed,      *)
(* recalled and submitted; command lines of one character (the provider      *)
(* command, an unknown command, a space) are typed, run and cancelled, and   *)
(* the control key is pressed in both modes.                                 *)

MaxModeTyped == 1      \* longest message typed (SpecMode)
MaxModeSends == 1      \* messages submitted (SpecMode)
MaxModeNotices == 1    \* notices appended after the three of the start (SpecMode)
MaxModeLog == 3 + 2 * MaxModeSends + MaxModeNotices

\* p, x, space
ModeCommandChars == {112, 120, 32}

\* The provider selector is cancelled, or answers the second profile.
ModeEnvs == {NoEnv, [NoEnv EXCEPT !.selected_config = Some(LoadedConfigs[2])]}

ModeType ==
    /\ ~command_mode
    /\ \E key \in {97, 32} : KeyPress(key, <<>>, NoEnv, MaxModeTyped, MaxModeSends, MaxModeLog)

ModeMove ==
    /\ ~command_mode
    /\ \E key \in {KEY_LEFT, KEY_UP} :
           KeyPress(key, <<>>, NoEnv, MaxModeTyped, MaxModeSends, MaxModeLog)

ModeSubmit ==
    /\ ~command_mode
    /\ KeyPress(K_RETURN, <<>>, NoEnv, MaxModeTyped, MaxModeSends, MaxModeLog)

ModeEnterCommand ==
    /\ ~command_mode
    /\ KeyPress(K_CTRL_L, <<>>, NoEnv, MaxModeTyped, MaxModeSends, MaxModeLog)

ModeTypeCommand ==
    /\ command_mode
    /\ \E key \in ModeCommandChars \cup {K_CTRL_L} :
           KeyPress(key, <<>>, NoEnv, 1, MaxModeSends, MaxModeLog)

ModeRun ==
    /\ command_mode
    /\ Notices(messages) < 3 + MaxModeNotices
    /\ \E env \in ModeEnvs : KeyPress(K_RETURN, <<>>, env, 1, MaxModeSends, MaxModeLog)

ModeCancel ==
    /\ command_mode
    /\ KeyPress(K_ESC, <<>>, NoEnv, 1, MaxModeSends, MaxModeLog)

NextMode ==
    \/ ModeType
    \/ ModeMove
    \/ ModeSubmit
    \/ ModeEnterCommand
    \/ ModeTypeCommand
    \/ ModeRun
    \/ ModeCancel

SpecMode == InitInput /\ [][NextMode]_vars

-----------------------------------------------------------------------------
(* SpecDecode: the character path.  In both modes keys that reach it are     *)
(* pressed, with the codes that the terminal has queued behind them: ASCII,  *)
(* the code 0, lead bytes with and without their continuation bytes, a byte  *)
(* that leads nothing, and a function key.                                   *)

MaxDecodeTyped == 1    \* length of a buffer that still takes a key (SpecDecode)

\* 0, a, 0xC3, 0xE2, 0xFF, KEY_F(1)
DecodeKeys == {0, 97, LeadByte, 226, 255, 265}

\* What can be queued behind a key: nothing, the rest of a two-byte and of
\* a three-byte sequence, a letter, a function key.
DecodeAheads == { <<>>, <<169>>, <<169, 97>>, <<130, 172>>, <<97>>, <<265>> }

DecodeType ==
    /\ ~command_mode
    /\ \E key \in DecodeKeys, ahead \in DecodeAheads :
           KeyPress(key, ahead, NoEnv, MaxDecodeTyped, 0, MaxLog)

DecodeTypeCommand ==
    /\ command_mode
    /\ \E key \in DecodeKeys, ahead \in DecodeAheads :
           KeyPress(key, ahead, NoEnv, MaxDecodeTyped, 0, MaxLog)

DecodeQueued == KeyQueued(NoEnv, MaxDecodeTyped + 2, 0, MaxLog)

DecodeEnterCommand ==
    /\ ~command_mode
    /\ KeyPress(K_CTRL_L, <<>>, NoEnv, MaxDecodeTyped, 0, MaxLog)

DecodeCancel ==
    /\ command_mode
    /\ KeyPress(K_ESC, <<>>, NoEnv, MaxDecodeTyped, 0, MaxLog)

NextDecode ==
    \/ DecodeType
    \/ DecodeTypeCommand
    \/ DecodeQueued
    \/ DecodeEnterCommand
    \/ DecodeCancel

SpecDecode == InitInput /\ [][NextDecode]_vars

-----------------------------------------------------------------------------
(* Properties.                                                              *)

\* The thread that took the step into the next state.
Stepper == last'.thread

ThreadActed == last'.op = "thread"
KeyActed == last'.op = "key"

InFlight == {i \in 1..Len(threads) : threads[i].pc # "done"}

Count(msgs, m) == Cardinality({j \in 1..Len(msgs) : msgs[j] = m})

HoldsPlaceholder(msgs) ==
    \E j \in 1..Len(msgs) : msgs[j] = Message("assistant", THINKING)

\* C1: a step of a background request overwrites only an assistant message:
\* every user message and every system message of the log is still there,
\* at its position and unchanged, after the step.
C1_BackgroundKeepsUserAndSystem ==
    [][ThreadActed =>
           \A j \in 1..Len(messages) :
               messages[j].role # "assistant" =>
                   j <= Len(messages') /\ messages'[j] = messages[j]]_vars

\* C2: in every reachable state at most one background request is in flight.
C2_AtMostOneInFlight == Cardinality(InFlight) <= 1

\* C3: when a request ends without any delta having carried content, exactly
\* one notice "no valid response" is appended to the log, and afterwards no
\* assistant message of the log holds the "thinking" placeholder.
C3_EmptyResult ==
    [][(ThreadActed /\ last'.event = "end"
            /\ threads[Stepper].full_response = <<>>) =>
           /\ Count(messages', Message("system", NO_VALID_RESPONSE))
                  = Count(messages, Message("system", NO_VALID_RESPONSE)) + 1
           /\ ~HoldsPlaceholder(messages')]_vars

EXIT == <<101, 120, 105, 116>>

\* C4: the command exit submitted in CommandEntry mode, and the escape key in
\* Normal mode, each stop the key loop after that key event.
C4_BothWaysLeave ==
    [][(KeyActed /\ (\/ command_mode /\ IsEnter(last'.key) /\ command_input = EXIT
                     \/ ~command_mode /\ last'.key = K_ESC)) =>
           ~running']_vars

\* The prefixes handle_command recognizes.
Recognized(command) ==
    \E prefix \in { <<102>>, <<112>>, <<99, 114>>, <<115>>, <<108>>, <<104>>,
                    <<99, 108, 101, 97, 114>>, <<99, 110>>, <<99, 108, 101, 97, 110>>,
                    EXIT, <<113, 117, 105, 116>> } :
        StartsWith(command, prefix)

\* C5: a command that is not recognized, the empty one and those made of
\* spaces included, appends one system notice to the log when it is
\* submitted in CommandEntry mode; the session goes on in Normal mode and no
\* exception escapes.
C5_UnknownCommandNoticed ==
    [][(KeyActed /\ command_mode /\ IsEnter(last'.key) /\ ~Recognized(command_input)) =>
           /\ Len(messages') = Len(messages) + 1
           /\ SubSeq(messages', 1, Len(messages)) = messages
           /\ messages'[Len(messages')].role = "system"
           /\ ~command_mode'
           /\ running'
           /\ escaped' = NoExc]_vars

\* C6: cancelling CommandEntry mode with the escape key, after any editing of
\* the command buffer, leaves the main text and cursor as they were when the
\* mode was entered, and leaves the log, the recall history and the
\* placeholder table as they were.
C6_CancelRestores ==
    [][(KeyActed /\ command_mode /\ last'.key = K_ESC) =>
           /\ entry # NoneVal
           /\ ~command_mode'
           /\ current_input' = entry[1].current_input
           /\ cursor_pos' = entry[1].cursor_pos
           /\ messages' = entry[1].messages
           /\ input_history' = entry[1].input_history
           /\ history_index' = entry[1].history_index
           /\ file_placeholders' = entry[1].file_placeholders]_vars

\* A text was in the main buffer with the cursor inside it, a message had
\* been submitted and a file selected before, the command buffer was edited,
\* and the mode was cancelled.
C6_Witness ==
    /\ last.op = "key" /\ last.key = K_ESC /\ last.command_mode
    /\ ~command_mode
    /\ command_input # <<>>
    /\ current_input # <<>>
    /\ cursor_pos < Len(current_input)
    /\ input_history # <<>>
    /\ file_placeholders # <<>>

CursorInRange(s) ==
    /\ 0 <= s.cursor_pos /\ s.cursor_pos <= Len(s.current_input)
    /\ 0 <= s.command_cursor_pos /\ s.command_cursor_pos <= Len(s.command_input)
    /\ 0 <= s.saved_cursor_pos /\ s.saved_cursor_pos <= Len(s.saved_input)

\* Keys of every branch of the dispatch; lead bytes of multi-byte sequences
\* with what may be queued behind them; the answers of the file selector.
ProbeKeys ==
    { KEY_DOWN, KEY_UP, KEY_LEFT, KEY_RIGHT, KEY_BACKSPACE, KEY_ENTER, K_NEWLINE,
      K_CTRL_L, K_RETURN, K_ESC, K_DEL, 32, 97, 102, -1 }
ProbeAheads == { <<>>, <<169>>, <<130, 172>>, <<97>> }
Probes ==
    {<<key, <<>>, NoEnv>> : key \in ProbeKeys}
    \cup {<<key, ahead, NoEnv>> : key \in {LeadByte, 226, 240}, ahead \in ProbeAheads}
    \cup {<<KEY_ENTER, <<>>, env>> : env \in InputEnvs}

\* C7: after any sequence of key events the cursor of the main buffer and
\* the cursor of the command buffer lie between 0 and the length of their
\* text (the saved buffer included), and whatever key comes next keeps them
\* there.
C7_CursorInRange ==
    /\ CursorInRange(Self)
    /\ \A probe \in Probes :
           CursorInRange(process_input([Self EXCEPT !.pending = probe[2]],
                                       probe[1], probe[3]))

\* The select-file command has appended a tag to a saved text whose cursor
\* was inside it.
C7_Witness ==
    /\ last.op = "key" /\ IsEnter(last.key) /\ last.command_mode
    /\ file_placeholders # <<>>
    /\ Contains(current_input, TAG_OPEN)
    /\ ~StartsWith(current_input, TAG_OPEN)
    /\ cursor_pos > 0

Buffers(s) ==
    <<s.current_input, s.cursor_pos, s.command_input, s.command_cursor_pos>>

ActiveText(s) == IF s.command_mode THEN s.command_input ELSE s.current_input
ActiveCursor(s) == IF s.command_mode THEN s.command_cursor_pos ELSE s.cursor_pos

\* Keys that insert one character: printable ones, and the lead byte of a
\* two-byte sequence with or without its continuation byte behind it.
Insertions ==
    { <<32, <<>> >>, <<97, <<>> >>, <<122, <<>> >>, <<LeadByte, <<>> >> }
    \cup (IF command_mode THEN {} ELSE { <<LeadByte, <<169>> >> })

\* C8: in the main buffer and in the command buffer, for every text and
\* cursor position, inserting one character at the cursor and then deleting
\* backward gives back the text and the cursor; deleting backward with the
\* cursor at 0 changes neither.
C8_InsertThenDelete ==
    /\ \A ins \in Insertions :
           LET s0 == [Self EXCEPT !.pending = ins[2]]
               s1 == process_input(s0, ins[1], NoEnv)
               s2 == process_input(s1, KEY_BACKSPACE, NoEnv)
           IN  /\ Len(ActiveText(s1)) = Len(ActiveText(s0)) + 1
               /\ ActiveCursor(s1) = ActiveCursor(s0) + 1
               /\ Buffers(s2) = Buffers(s0)
    /\ \A key \in {KEY_BACKSPACE, K_DEL} :
           ActiveCursor(Self) = 0 =>
               Buffers(process_input(Self, key, NoEnv)) = Buffers(Self)

\* A character was deleted inside a text: the cursor is neither at its start
\* nor at its end.
C8_Witness ==
    /\ last.op = "key" /\ IsBackspace(last.key) /\ ~last.command_mode
    /\ 0 < cursor_pos /\ cursor_pos < Len(current_input)

Truncated(content) ==
    /\ Len(content) = MAX_MESSAGE_LENGTH + Len(RESPONSE_TRUNCATED)
    /\ EndsWith(content, RESPONSE_TRUNCATED)

\* C9: in the streaming dialects, whenever the response accumulated by a
\* request exceeds the maximum length, the assistant message stored in the
\* log is exactly the maximum plus the marker long and ends with the marker;
\* this is so after the delta that exceeds the maximum and after every
\* delta that follows it.
C9_StreamTruncated ==
    [][(ThreadActed /\ last'.event = "content"
            /\ (\/ Len(threads[Stepper].full_response \o last'.content) > MAX_MESSAGE_LENGTH
                \/ Truncated(threads[Stepper].full_response))) =>
           /\ Truncated(threads'[Stepper].full_response)
           /\ messages'[Len(messages')] =
                  Message("assistant", threads'[Stepper].full_response)]_vars

\* Deltas have taken the response over the maximum, and the message of the
\* log is the cut response.
C9_Witness ==
    /\ last.op = "thread" /\ last.event = "content" /\ last.content # <<>>
    /\ \E i \in 1..Len(threads) :
           /\ Truncated(threads[i].full_response)
           /\ messages[Len(messages)] = Message("assistant", threads[i].full_response)
           /\ SubSeq(threads[i].full_response, 1, 4) = <<104, 105, 104, 105>>

\* C10: the content of a user message handed to the network client is never
\* longer than the maximum length plus the length of the marker: a message
\* that is longer after the expansion of its file tags is cut.
C10_SentWithinLimit ==
    \A i \in 1..Len(threads) :
        \A j \in 1..Len(threads[i].messages_to_send) :
            threads[i].messages_to_send[j].role = "user" =>
                Len(threads[i].messages_to_send[j].content)
                    <= MAX_MESSAGE_LENGTH + Len(MESSAGE_TRUNCATED)

\* The user messages handed to the background requests.
SentUserContents ==
    {threads[i].messages_to_send[j].content : 
        <<i, j>> \in {<<i, j>> \in (1..Len(threads)) \X (1..MaxSendLog) :
                         /\ j <= Len(threads[i].messages_to_send)
                         /\ threads[i].messages_to_send[j].role = "user"}}

\* The user messages of the log.
LoggedUserContents ==
    {messages[i].content : i \in {i \in 1..Len(messages) : messages[i].role = "user"}}

\* C11: no transmitted user message contains an unresolved file tag, also
\* when the tag was written with spaces around the path, while the stored
\* log keeps every submitted text as it was typed.
C11_NoTagTransmitted ==
    /\ \A content \in SentUserContents : FindAllTags(content, 1) = <<>>
    /\ LoggedUserContents = {input_history[i] : i \in 1..Len(input_history)}

\* The four outcomes of a tag, by the state of the file it names.
Outcome(file_path, f) ==
    IF ~f.exists THEN NOT_FOUND \o file_path \o <<93>>
    ELSE IF f.size > MAX_FILE_SIZE THEN TOO_LARGE \o file_path \o <<93>>
    ELSE IF ~f.readable THEN READ_ERROR \o f.error \o <<93>>
    ELSE FENCE_OPEN \o file_path \o <<10>> \o f.content \o FENCE_CLOSE

\* Submitting a buffer that is one tag transmits the outcome of its file.
TagResolves(body) ==
    current_input = Tag(body) /\ ~command_mode
        => \A fs \in [Paths -> SendFileStates] :
               LET after == send_message(Self, [NoEnv EXCEPT !.files = fs])
                   sent == after.threads[Len(after.threads)].messages_to_send
               IN  /\ after.exc = NoExc
                   /\ Len(after.threads) = Len(threads) + 1
                   /\ sent[Len(sent)].content = Outcome(Strip(body), fs[Strip(body)])

\* C12: every tag of a submitted message resolves to exactly one of four
\* outcomes by the state of its file (not found; too large when the size is
\* above the maximum, a file of exactly the maximum being read; read error;
\* the full text in a labelled fenced block), and none aborts the send.
C12_TagOutcomes == \A body \in TagBodies : TagResolves(body)

\* The same for the tags written compactly.
C12_CompactTagOutcomes == \A body \in Paths : TagResolves(body)

\* A compact tag is in the buffer, ready to be submitted.
C12_CompactTagTyped == \E body \in Paths : current_input = Tag(body) /\ ~command_mode

\* The messages of a log that are not notices, in their order.
Spoken(msgs) == SelectSeq(msgs, LAMBDA msg : msg.role # "system")

\* C13: at a submission, the list handed to the network client holds no
\* system message and at most 10 messages, is the last min(10, k) of the k
\* non-system messages of the log in their order, and ends with the user
\* message just submitted.
C13_TrailingWindow ==
    ~command_mode /\ Strip(current_input) # <<>>
        => LET after == process_input(Self, K_RETURN, NoEnv)
               sent == after.threads[Len(after.threads)].messages_to_send
               spoken == Spoken(messages) \o <<Message("user", current_input)>>
               k == Len(spoken)
           IN  /\ Len(after.threads) = Len(threads) + 1
               /\ \A i \in 1..Len(sent) : sent[i].role # "system"
               /\ Len(sent) <= 10
               /\ sent = SubSeq(spoken, k - Min(10, k) + 1, k)
               /\ sent[Len(sent)] = Message("user", current_input)

\* A message is about to be submitted to a log of more than ten messages
\* that are not notices, with a notice among them, after an earlier
\* submission whose list was full already.
C13_Witness ==
    /\ ~command_mode
    /\ Strip(current_input) # <<>>
    /\ Len(Spoken(messages)) > 10
    /\ \E i \in 5..Len(messages) : messages[i].role = "system"
    /\ \E i \in 1..Len(threads) : Len(threads[i].messages_to_send) = 10

\* The commands that purge the history: clean..., cn...
IsPurge(command) ==
    StartsWith(command, <<99, 108, 101, 97, 110>>) \/ StartsWith(command, <<99, 110>>)

\* The key the purge waits for: the next of the input queue, else the one
\* the user types then.
ConfirmKey(ahead, env) == IF ahead # <<>> THEN Head(ahead) ELSE env.confirm_key

\* Running the purge command in this state with a key that is not y or Y
\* keeps every file and appends the cancellation notice.
PurgeCancelled ==
    command_mode /\ IsPurge(command_input)
        => \A env \in HistoryEnvs, ahead \in {<<>>, <<110>>, <<121>>, <<89>>} :
               LET after == process_input([Self EXCEPT !.pending = ahead], KEY_ENTER, env)
               IN  ConfirmKey(ahead, env) \notin {121, 89}
                       => /\ after.history_dir = history_dir
                          /\ Len(after.messages) = Len(messages) + 2
                          /\ after.messages[Len(after.messages)]
                                 = Message("system", CLEAN_CANCELLED)
                          /\ SubSeq(after.messages, 1, Len(messages)) = messages

\* A step that deletes a file is a confirmed purge.
FileDeleted == \E name \in DOMAIN history_dir : name \notin DOMAIN history_dir'

ConfirmedPurge ==
    /\ command_mode /\ IsPurge(command_input)
    /\ last'.op = "key" /\ IsEnter(last'.key)
    /\ messages'[Len(messages')] = Message("system", CLEANED)

\* C14: when purge-history is run and the confirmation key is not y or Y, no
\* saved conversation is deleted and a cancellation notice is appended to
\* the log; files are deleted only by a purge confirmed with y or Y.
C14_PurgeNeedsConfirmation == []PurgeCancelled /\ [][FileDeleted => ConfirmedPurge]_vars

\* A purge was cancelled while a saved conversation was in the directory.
C14_Witness ==
    /\ DOMAIN history_dir # {}
    /\ last.op = "key" /\ last.command_mode /\ IsEnter(last.key)
    /\ Len(messages) >= 2
    /\ messages[Len(messages)] = Message("system", CLEAN_CANCELLED)

\* s n, l n.json: the commands that save the log and load what was saved
SaveCommand == <<115, 32, 110>>
LoadCommand == <<108, 32>> \o HistoryName

\* C15: saving the log and then loading the saved file gives a log whose
\* non-system messages are the non-system messages of the original, in the
\* same order, user contents with their tags as typed; no file saved holds
\* a system message.
C15_SaveThenLoad ==
    /\ \A name \in DOMAIN history_dir :
           \A i \in 1..Len(history_dir[name].messages) :
               history_dir[name].messages[i].role # "system"
    /\ LET saved == handle_command(Self, SaveCommand, NoEnv)
           loaded == handle_command(saved, LoadCommand, NoEnv)
       IN  /\ HistoryName \in DOMAIN saved.history_dir
           /\ \A i \in 1..Len(saved.history_dir[HistoryName].messages) :
                  saved.history_dir[HistoryName].messages[i].role # "system"
           /\ Spoken(loaded.messages) = Spoken(messages)

\* A log that held notices was saved, and the file was loaded: the log is
\* the file's messages, a tag in the user message, and the two notices of
\* the load.
C15_Witness ==
    /\ HistoryName \in DOMAIN history_dir
    /\ last.op = "key" /\ last.command_mode /\ IsEnter(last.key)
    /\ Len(messages) = 4
    /\ SubSeq(messages, 1, 2) = history_dir[HistoryName].messages
    /\ messages[1].role = "user" /\ FindAllTags(messages[1].content, 1) # <<>>
    /\ messages[3] = Message("system", Take(LOADED \o HistoryName, MAX_MESSAGE_LENGTH)
                                           \o SYSTEM_TRUNCATED)

\* A request that is not forced and comes within the throttle interval
\* draws nothing and keeps the time of the last redraw.
UnforcedDropped ==
    now - last_redraw_time < REDRAW_THROTTLE
        => LET after == redraw(Self, FALSE)
           IN  /\ after.last_redraw_time = last_redraw_time
               /\ after.drawn.forced = drawn.forced
               /\ after.drawn.unforced = "dropped"

\* A forced request draws and sets the time of the last redraw.
ForcedPerformed ==
    LET after == redraw(Self, TRUE)
    IN  after.last_redraw_time = now /\ after.drawn.forced

\* The request of the loop after a key whose handler has not drawn.
LoopThrottled ==
    /\ last'.op = "key" /\ now' = now /\ running'
    /\ ~drawn'.forced
    /\ now - last_redraw_time < REDRAW_THROTTLE
    => drawn'.unforced = "dropped" /\ last_redraw_time' = last_redraw_time

\* A command that changes the log or the active provider forces a redraw.
CommandForces ==
    /\ last'.op = "key" /\ IsEnter(last'.key) /\ command_mode
    /\ messages' # messages \/ current_config' # current_config
    => drawn'.forced /\ last_redraw_time' = now'

\* C16: a full-redraw request that is not forced and comes less than the
\* throttle interval (100 ms) after the last performed redraw draws nothing
\* and leaves the last-redraw time unchanged; a forced request is always
\* performed and updates the time; and every command that changes the log
\* or the active provider issues a forced redraw.
C16_RedrawThrottle ==
    /\ [](UnforcedDropped /\ ForcedPerformed)
    /\ [][LoopThrottled /\ CommandForces]_vars

\* The provider was switched after the session began, which drew the
\* screen; later, less than the throttle interval after that redraw, a key
\* was handled without a forced redraw and the request of the loop was
\* dropped.
C16_Witness ==
    /\ current_config # LoadedConfigs[1]
    /\ last_redraw_time > 0
    /\ 0 < now - last_redraw_time /\ now - last_redraw_time < REDRAW_THROTTLE
    /\ last.op = "key"
    /\ ~drawn.forced /\ drawn.unforced = "dropped"

\* What the network delivered made the request fail: the connection failed,
\* the status was not 200, a delta held no text, or the body of the
\* single-shot dialect was not JSON.
Failed(i, kind) ==
    /\ threads[i].pc # "done"
    /\ \/ kind \in {"api_error", "error", "refused", "status", "none_content"}
       \/ kind = "bad_json" /\ threads[i].pc = "posted" /\ current_config.is_infini

\* The description of the failure.
Description(kind, content) ==
    IF kind = "status" THEN HTTP_500 \o content
    ELSE IF kind = "none_content" THEN NONE_TYPE
    ELSE IF kind = "bad_json" THEN JSON_ERROR
    ELSE CONNECTION_ERROR

\* The labels of the error notices.
ErrorLabels == {API_ERROR, ERROR_OCCURRED, NETWORK_ERROR, PARSE_ERROR, RESPONSE_PARSE_ERROR}

\* A notice as the log holds it.
Noticed(text) ==
    IF Len(text) > MAX_MESSAGE_LENGTH
    THEN Take(text, MAX_MESSAGE_LENGTH) \o SYSTEM_TRUNCATED
    ELSE text

FailureNoticed ==
    last'.op = "thread" /\ Failed(last'.thread, last'.event)
        => /\ Len(messages') > Len(messages)
           /\ SubSeq(messages', 1, Len(messages)) = messages
           /\ \E label \in ErrorLabels :
                  messages'[Len(messages) + 1] =
                      Message("system",
                              Noticed(label \o Description(last'.event, last'.content)))
           /\ threads'[last'.thread].pc = "done"
           /\ running' /\ escaped' = NoExc

Open == selector[1]
AtRoot == selector # NoneVal /\ Open.kind = "file" /\ Open.current_dir = ROOT

\* C18: in the file selector, the key for the parent directory pressed while
\* the current directory is the root of the file system changes nothing: the
\* current directory, the selected index and the scroll offset stay as they
\* are (and the selector does not return).
C18_ParentAtRoot ==
    AtRoot =>
        LET after == select_file_tui(Open, KEY_LEFT)
        IN  /\ after.current_dir = Open.current_dir
            /\ after.selected_index = Open.selected_index
            /\ after.scroll_offset = Open.scroll_offset
            /\ ~after.done

\* The file selector shows the root with its second entry selected and the
\* list scrolled by one line.
C18_Witness == AtRoot /\ Open.selected_index = 1 /\ Open.scroll_offset = 1

\* The lines of the list a selector shows.
visibleRows(sel) == sel.height - 3

\* C19: in every selector with at least one visible line and a list that is
\* not empty, whatever keys were pressed, the selected index is in
\* 0..len(items)-1, the selected item is inside the window
\* (scroll_offset <= selected_index < scroll_offset + visibleRows), and up at
\* the first item and down at the last item change nothing.
C19_SelectionVisible ==
    (selector # NoneVal /\ visibleRows(Open) >= 1 /\ Open.entries # <<>>) =>
        /\ Open.selected_index \in 0..(Len(Open.entries) - 1)
        /\ Open.scroll_offset <= Open.selected_index
        /\ Open.selected_index < Open.scroll_offset + visibleRows(Open)
        /\ Open.selected_index = 0 => SelectorKey(Open, KEY_UP) = Open
        /\ Open.selected_index = Len(Open.entries) - 1 => SelectorKey(Open, KEY_DOWN) = Open

\* A selector of three items showing one line has its last item selected,
\* the list scrolled down to it.
C19_Witness ==
    /\ selector # NoneVal
    /\ Len(Open.entries) = 3
    /\ visibleRows(Open) = 1
    /\ Open.selected_index = 2
    /\ Open.scroll_offset = 2

\* The recall index is -1 or the index of an entry of input_history.
RecallInRange == history_index \in -1..(Len(input_history) - 1)

\* What KEY_UP and KEY_DOWN do to the recall index and the main buffer.
RecallStep ==
    (last'.op = "key" /\ ~command_mode /\ last'.key \in {KEY_UP, KEY_DOWN}) =>
        /\ input_history' = input_history
        /\ (last'.key = KEY_UP /\ history_index = Len(input_history) - 1) =>
               UNCHANGED <<history_index, current_input, cursor_pos>>
        /\ (last'.key = KEY_DOWN /\ history_index = -1) =>
               UNCHANGED <<history_index, current_input, cursor_pos>>
        /\ (last'.key = KEY_UP /\ history_index < Len(input_history) - 1) =>
               history_index' = history_index + 1
        /\ (last'.key = KEY_DOWN /\ history_index > 0) =>
               history_index' = history_index - 1
        /\ (history_index' # history_index /\ history_index' >= 0) =>
               /\ current_input' = input_history[history_index' + 1]
               /\ cursor_pos' = Len(current_input')
        /\ (last'.key = KEY_DOWN /\ history_index = 0) =>
               /\ history_index' = -1
               /\ current_input' = <<>>
               /\ cursor_pos' = 0

\* C20: after any sequence of key events the recall index is in
\* -1..len(input_history)-1; recall-previous at the oldest entry and
\* recall-next at index -1 change nothing; a recall step that lands on an
\* index i >= 0 leaves the main buffer equal to input_history[i] with the
\* cursor at its end; recall-next from index 0 sets the index to -1 and
\* empties the buffer.
C20_RecallIndex == []RecallInRange /\ [][RecallStep]_vars

\* Two different messages were submitted and KEY_UP, pressed twice, has
\* brought the older one into the buffer.
C20_Witness ==
    /\ Len(input_history) = 2
    /\ input_history[1] # input_history[2]
    /\ history_index = 1
    /\ last.op = "key"
    /\ last.key = KEY_UP
    /\ current_input = input_history[2]
    /\ cursor_pos = Len(current_input)

\* Enter was pressed in this step.
EnterPressed == last'.op = "key" /\ IsEnter(last'.key)

\* What Enter does to the recall history in each mode.
SubmitRecorded ==
    /\ (EnterPressed /\ ~command_mode /\ Strip(current_input) # <<>>) =>
           /\ input_history' = <<current_input>> \o input_history
           /\ history_index' = -1
    /\ (EnterPressed /\ command_mode) => UNCHANGED <<input_history, history_index>>

\* C21: submitting a main input that is not blank puts exactly that text at
\* the front of input_history, the older entries keeping their order, and
\* sets the recall index to -1; Enter in command mode changes neither
\* input_history nor the recall index.
C21_SubmitRecorded == [][SubmitRecorded]_vars

\* A second, different message has just been submitted.
C21_Witness ==
    /\ Len(input_history) = 2
    /\ input_history[1] # input_history[2]
    /\ last.op = "key"
    /\ IsEnter(last.key)
    /\ ~last.command_mode
    /\ history_index = -1
    /\ messages[Len(messages) - 1] = Message("user", input_history[1])

\* A command was run while an entry of the history was recalled.
C21_WitnessCommand ==
    /\ last.op = "key"
    /\ IsEnter(last.key)
    /\ last.command_mode
    /\ history_index = 0

\* A key was processed in this step, in Normal mode or in command mode.
KeyIn(mode) == last'.op = "key" /\ command_mode = mode

\* The messages of the user in a log.
UserMessages(msgs) == SelectSeq(msgs, LAMBDA m : m.role = "user")

\* The control key in Normal mode enters command mode, the main buffer and
\* its cursor saved aside and the command line empty; no other key of Normal
\* mode changes the mode.
FromNormal ==
    KeyIn(FALSE) =>
        IF last'.key = K_CTRL_L
        THEN /\ command_mode'
             /\ saved_input' = current_input
             /\ saved_cursor_pos' = cursor_pos
             /\ command_input' = <<>>
             /\ command_cursor_pos' = 0
        ELSE ~command_mode'

\* Only Enter and escape leave command mode.
StaysInCommand ==
    (KeyIn(TRUE) /\ ~IsEnter(last'.key) /\ last'.key # K_ESC) => command_mode'

\* Enter and escape do leave command mode.
LeavesCommand ==
    (KeyIn(TRUE) /\ (IsEnter(last'.key) \/ last'.key = K_ESC)) => ~command_mode'

\* No key of command mode submits a message.
NothingSent ==
    KeyIn(TRUE) =>
        /\ threads' = threads
        /\ UserMessages(messages') = UserMessages(messages)

\* Enter runs the command line once, and then leaves the mode: the log and
\* the profile are those of one call of handle_command.
RunsOnce ==
    (KeyIn(TRUE) /\ IsEnter(last'.key) /\ escaped' = NoExc) =>
        \E env \in ModeEnvs :
            LET after == handle_command(Self, command_input, env)
            IN  /\ messages' = after.messages
                /\ current_config' = after.current_config

\* C22: the mode changes only so: the control key in Normal mode moves to
\* command mode, saving the main buffer (text and cursor) aside and starting
\* with an empty command line; Enter or escape in command mode moves back to
\* Normal.  In command mode no key appends a user message or starts a
\* background thread, and Enter executes the command line exactly once.
C22_ModeChanges ==
    [][FromNormal /\ StaysInCommand /\ LeavesCommand /\ NothingSent /\ RunsOnce]_vars

\* All of it but the return to Normal mode of a command that raises.
ModeChangesUnlessRaised ==
    [][/\ FromNormal /\ StaysInCommand /\ NothingSent /\ RunsOnce
       /\ (escaped' = NoExc => LeavesCommand)]_vars

\* The bytes the look-ahead collects for a key and the codes queued behind it.
Collected(key, ahead) == LookAhead(ahead, <<key>>, 2).bytes_seq

\* The session as it is with the codes queued, after the key.
AfterKey(key, ahead) == process_input([Self EXCEPT !.pending = ahead], key, NoEnv)

\* A lead byte whose sequence does not decode is inserted alone, at the
\* cursor, and nothing is raised (while the loop of chat_ui is running).
DecodeFallsBack ==
    \A key \in 128..255, ahead \in DecodeAheads :
        (running /\ Utf8Decode(Collected(key, ahead)) = NoneVal) =>
            /\ AfterKey(key, ahead).exc = NoExc
            /\ ActiveText(AfterKey(key, ahead))
                   = InsertAt(ActiveText(Self), ActiveCursor(Self), <<key>>)
            /\ ActiveCursor(AfterKey(key, ahead)) = ActiveCursor(Self) + 1

\* No key raises on the character path.
DecodeNeverRaises ==
    \A key \in DecodeKeys, ahead \in DecodeAheads :
        running => AfterKey(key, ahead).exc = NoExc

\* C23: for every lead key code in 128..255, when the bytes collected by the
\* look-ahead are not a valid encoded sequence, the single character whose
\* code point is the lead byte is inserted and no error is raised; and no
\* key code at all makes the character path raise an exception.
C23_DecoderNeverRaises == escaped = NoExc /\ DecodeFallsBack /\ DecodeNeverRaises

\* The character path raises for key 0 only.
DecodeRaisesOnNul ==
    \A key \in DecodeKeys, ahead \in DecodeAheads :
        (running /\ AfterKey(key, ahead).exc # NoExc) =>
            (key = 0 /\ AfterKey(key, ahead).exc = "ValueError")

\* The text between the cursor as it was and the rest of the text as it was.
InsertedText(text, cursor, after) == SubSeq(after, cursor + 1, cursor + Len(after) - Len(text))

\* The session in Normal mode and in command mode: the mode it is in, and
\* the other mode as escape or the control key gives it.
InNormal == IF command_mode THEN exit_command_mode(Self, TRUE) ELSE Self
InCommand == IF command_mode THEN Self ELSE enter_command_mode(Self)

\* C24: the decoder behaves identically in the two input paths: for every
\* key code that reaches the character path and every sequence of queued
\* codes, the text inserted into the main buffer in Normal mode equals the
\* text inserted into the command buffer in command mode, the cursor
\* advances by the same amount and the same queued codes are consumed.
C24_SameDecoder ==
    \A key \in DecodeKeys, ahead \in DecodeAheads :
        running =>
        LET n == process_input([InNormal EXCEPT !.pending = ahead], key, NoEnv)
            c == process_input([InCommand EXCEPT !.pending = ahead], key, NoEnv)
            text == InsertedText(InNormal.current_input, InNormal.cursor_pos, n.current_input)
        IN  /\ n.current_input = InsertAt(InNormal.current_input, InNormal.cursor_pos, text)
            /\ c.command_input
                   = InsertAt(InCommand.command_input, InCommand.command_cursor_pos, text)
            /\ n.cursor_pos - InNormal.cursor_pos
                   = c.command_cursor_pos - InCommand.command_cursor_pos
            /\ n.pending = c.pending
            /\ n.exc = c.exc

\* The two bytes of U+00E9 and a letter behind them were typed into the
\* command line at once.
C24_Witness ==
    /\ last.op = "key"
    /\ last.key = LeadByte
    /\ last.command_mode
    /\ command_mode
    /\ command_input = <<233, 97>>
    /\ command_cursor_pos = 2
    /\ pending = <<>>

-----------------------------------------------------------------------------
(* The message pane (display_messages, update_last_message).                 *)

\* Terminals <<height, width>>: panes of 1, 5 and 19 rows.  The size is read
\* once, at line 587.
Geometries == { <<6, 8>>, <<10, 20>>, <<24, 80>> }

\* The pane of a terminal of that height shows the last of these lines, in
\* order, the last one on the bottom row of the pane, and nothing above them.
PaneShows(rows, lines, height) ==
    LET bottom == height - 4
        n == Min(Len(lines), height - 5)
    IN  /\ DOMAIN rows = 2..bottom
        /\ \A k \in 0..(n - 1) : rows[bottom - k] = lines[Len(lines) - k]
        /\ \A r \in 2..(bottom - n) : rows[r] = <<>>

FullRedraw(height, width) == display_messages(Self, height, width)
FlattenedLines(width) == display_lines(messages, file_placeholders, width)

\* C25: after a full redraw of a pane of P rows the pane shows exactly the
\* last min(L, P) of the L wrapped lines, in their order, the last line on
\* the bottom row of the pane, and no line anywhere else.
C25_FullRedrawShowsLastLines ==
    \A g \in Geometries :
        PaneShows(FullRedraw(g[1], g[2]), FlattenedLines(g[2]), g[1])

\* A line as long as the terminal is wide loses its last character.
LineCut ==
    \E g \in Geometries :
        \E r \in 2..(g[1] - 4), i \in 1..Len(FlattenedLines(g[2])) :
            /\ Len(FlattenedLines(g[2])[i]) = g[2]
            /\ FullRedraw(g[1], g[2])[r] = Take(FlattenedLines(g[2])[i], g[2] - 1)
NoLineCut == ~LineCut

\* No message holds the marker of a file content, whose lines are drawn
\* unwrapped.
NoFileContent == \A i \in 1..Len(messages) : ~Contains(messages[i].content, FILE_MARKER)

\* What does hold: the rows and the order are the claimed ones, each line
\* drawn up to the column before the last.
FullRedrawUpToLastColumn ==
    NoFileContent =>
        \A g \in Geometries :
            PaneShows(FullRedraw(g[1], g[2]),
                      [i \in DOMAIN FlattenedLines(g[2]) |->
                          Take(FlattenedLines(g[2])[i], g[2] - 1)],
                      g[1])

IncrementalRedraw(height, width) ==
    update_last_message(Self, FullRedraw(height, width), height, width)

\* The last step was a delta of content: the thread has overwritten the last
\* message and calls update_last_message (lines 1252-1255, 1351-1354).
AfterDelta == last.op = "thread" /\ last.event = "content"

\* C28: after the incremental redraw every row it cleared shows what a full
\* redraw shows there, so the lines of the last two messages that are not
\* notices stand bottom-aligned in the rows and the order of a full redraw and
\* no cleared row is blank where a full redraw shows a line.
C28_IncrementalLikeFull ==
    AfterDelta =>
        \A g \in Geometries :
            \A r \in clear_start(Self, g[1], g[2])..(g[1] - 4) :
                IncrementalRedraw(g[1], g[2])[r] = FullRedraw(g[1], g[2])[r]

\* What does hold: the bottom row of the pane is the only row drawn, the other
\* cleared rows are blank and the rows above them are left as they were.
IncrementalDrawsOneRow ==
    AfterDelta =>
        \A g \in Geometries :
            /\ IncrementalRedraw(g[1], g[2])[g[1] - 4] = FullRedraw(g[1], g[2])[g[1] - 4]
            /\ \A r \in 2..(g[1] - 5) :
                   IncrementalRedraw(g[1], g[2])[r] =
                       IF r >= clear_start(Self, g[1], g[2]) THEN <<>>
                       ELSE FullRedraw(g[1], g[2])[r]

-----------------------------------------------------------------------------
(* SpecStartup: the start of the program.  The configuration file holds up   *)
(* to two lines, the command line gives a provider, a model, both or none;   *)
(* the selection is made, the session is entered and a key is typed.         *)

MaxConfigLines == 2     \* lines of the configuration file (SpecStartup)
MaxStartupTyped == 1    \* longest text typed into the main buffer (SpecStartup)

\* "# c", "A::u::k::m", "b::u::k::M::CURL", " a :: u :: k :: m ::x::{}:: True ",
\* "A::u", "::u::k::m"
ConfigLines ==
    { <<35, 32, 99>>,
      <<65, 58, 58, 117, 58, 58, 107, 58, 58, 109>>,
      <<98, 58, 58, 117, 58, 58, 107, 58, 58, 77, 58, 58, 67, 85, 82, 76>>,
      <<32, 97, 32, 58, 58, 32, 117, 32, 58, 58, 32, 107, 32, 58, 58, 32, 109, 32, 58, 58,
        120, 58, 58, 123, 125, 58, 58, 32, 84, 114, 117, 101, 32>>,
      <<65, 58, 58, 117>>,
      <<58, 58, 117, 58, 58, 107, 58, 58, 109>> }

\* The configuration file as __main__ finds or creates it: lines of
\* ConfigLines, or a file that cannot be read.
ConfigFiles ==
    { [exists |-> TRUE, readable |-> TRUE, lines |-> lines] :
          lines \in UNION { [1..n -> ConfigLines] : n \in 0..MaxConfigLines } }
    \cup { [exists |-> TRUE, readable |-> FALSE, lines |-> <<>>] }

\* --provider: not given, "", "a", "B"; --model: not given, "", "M"
Providers == { NoneVal, Some(<<>>), Some(<<97>>), Some(<<66>>) }
Models == { NoneVal, Some(<<>>), Some(<<77>>) }

\* __main__ at line 1660: the profiles are loaded and the command line is
\* parsed; selected_config is None and no session runs yet.  An exception of
\* load_configurations (line 1652) has ended the program.
InitStartup ==
    \E file \in ConfigFiles, provider \in Providers, model \in Models :
        /\ StateIs([Entered(<<>>, NoneVal, <<>>, [provider |-> provider, model |-> model])
                      EXCEPT !.messages = <<>>,
                             !.configs = load_configurations(file).configs])
        /\ selector = NoneVal
        /\ running = FALSE
        /\ escaped = load_configurations(file).exc
        /\ last = [op |-> "load", key |-> 0, command_mode |-> FALSE, thread |-> 0,
                   event |-> "none", content |-> <<>>]
        /\ entry = NoneVal

\* selected_config is still None.
AtStart == ~running /\ escaped = NoExc /\ current_config = NoneVal

\* Lines 1660-1684 and chat_ui up to its loop: the selection, the insertion
\* of the selected profile in front and the construction of the session, or
\* the IndexError that ends the program.
Launch ==
    /\ AtStart
    /\ LET chosen == select_config(configs, args)
       IN  IF chosen.exc # NoExc
           THEN /\ Becomes(Self)
                /\ running' = FALSE
                /\ escaped' = chosen.exc
           ELSE /\ Becomes(Entered(configs, chosen.selected_config, history_dir, args))
                /\ running' = TRUE
                /\ escaped' = NoExc
    /\ last' = [last EXCEPT !.op = "init"]
    /\ UNCHANGED <<selector, entry>>

StartupType ==
    ~command_mode /\ KeyPress(97, <<>>, NoEnv, MaxStartupTyped, 0, MaxLog)

NextStartup == Launch \/ StartupType

SpecStartup == InitStartup /\ [][NextStartup]_vars

\* The profile matches the command line: each parameter that counts as given
\* equals the field of the profile, letter case apart.
Matches(config, given, counts(_)) ==
    /\ counts(given.provider) => Lower(config.name) = Lower(given.provider[1])
    /\ counts(given.model) => Lower(config.model) = Lower(given.model[1])

\* The first loaded profile that matches, the first loaded profile when none
\* does.
FirstOf(loaded, given, counts(_)) ==
    IF \E i \in 1..Len(loaded) : Matches(loaded[i], given, counts)
    THEN loaded[CHOOSE i \in 1..Len(loaded) :
                    /\ Matches(loaded[i], given, counts)
                    /\ \A j \in 1..(i - 1) : ~Matches(loaded[j], given, counts)]
    ELSE loaded[1]

Given(option) == option # NoneVal

\* C26: at startup the active profile is the first loaded profile whose name
\* and model equal the given provider and model, letter case apart, a
\* parameter that was not given matching anything; it is the first loaded
\* profile when no profile matches.
C26_StartupProfile ==
    [][AtStart => (running' /\ current_config' = FirstOf(configs, args, Given))]_vars

\* What does hold: with a profile loaded the session starts, with a parameter
\* counting as given when it is not empty.
StartupProfileWhenLoaded ==
    [][(AtStart /\ configs # <<>>) =>
           (running' /\ current_config' = FirstOf(configs, args, Truthy)
            /\ configs' = <<current_config'>> \o configs)]_vars

\* No profile loaded: the program ends with IndexError.
StartupRaisesWhenEmpty ==
    [][(AtStart /\ configs = <<>>) => (~running' /\ escaped' = "IndexError")]_vars

-----------------------------------------------------------------------------
(* SpecDialect: the two dialects of a response.  One message is submitted    *)
(* under any of the three profiles; the network streams deltas of several    *)
(* lengths, lines that are not JSON and chunks without content, or answers   *)
(* with one body, short or long, and ends or fails at any point.             *)

MaxDialectTyped == 1    \* longest text typed into the main buffer (SpecDialect)
\* One message is submitted, so that the foreground appends nothing while
\* its thread runs.
DialectThreads == {1}
MaxDialectLog == 3 + 2 * Cardinality(DialectThreads) + 1

\* "hi", "yes", "considering": the deltas arrive in any order, and a streamed
\* response passes the maximum
DialectDeltas ==
    { <<104, 105>>,
      <<121, 101, 115>>,
      <<99, 111, 110, 115, 105, 100, 101, 114, 105, 110, 103>> }

\* "hi", and a body one character longer than the maximum and the marker
DialectBodies ==
    { <<104, 105>>,
      [n \in 1..(MAX_MESSAGE_LENGTH + Len(RESPONSE_TRUNCATED) + 1) |-> 97] }

DialectType ==
    /\ ~command_mode
    /\ KeyPress(97, <<>>, NoEnv, MaxDialectTyped, Cardinality(DialectThreads), MaxDialectLog)

DialectSubmit ==
    /\ ~command_mode
    /\ KeyPress(K_RETURN, <<>>, NoEnv, MaxDialectTyped, Cardinality(DialectThreads), MaxDialectLog)

\* The request is made: the stream opens, the body arrives, or the request
\* fails.
DialectRequest ==
    \E i \in DialectThreads :
        \/ \E outcome \in {"ok", "api_error", "error"} : OpenAICreate(i, outcome)
        \/ CurlPost(i)
        \/ \E k \in {"refused", "bad_json", "no_choices", "no_message"} :
               CurlResponse(i, Chunk(k, <<>>, FALSE))
        \/ \E body \in DialectBodies : CurlResponse(i, Chunk("ok", body, FALSE))
        \/ CurlResponse(i, Chunk("status", <<111, 107>>, FALSE))

\* The stream delivers a delta, or something that is none.
DialectDelta ==
    \E i \in DialectThreads :
        \/ \E d \in DialectDeltas : OpenAIChunk(i, Chunk("content", d, FALSE))
        \/ OpenAIChunk(i, Chunk("no_content", <<>>, FALSE))
        \/ \E d \in DialectDeltas : CurlLine(i, Chunk("content", d, FALSE))
        \/ \E k \in {"not_json", "no_content"} : CurlLine(i, Chunk(k, <<>>, FALSE))

\* The exchange ends: by the end marker, by the closure of the stream, or by
\* a failure.
DialectEnd ==
    \E i \in DialectThreads :
        \/ \E k \in {"none_content", "error", "end"} : OpenAIChunk(i, Chunk(k, <<>>, FALSE))
        \/ \E d \in DialectDeltas : CurlLine(i, Chunk("content", d, TRUE))
        \/ CurlLine(i, Chunk("no_content", <<>>, TRUE))
        \/ \E k \in {"none_content", "error", "end"} : CurlLine(i, Chunk(k, <<>>, FALSE))

NextDialect == DialectType \/ DialectSubmit \/ DialectRequest \/ DialectDelta \/ DialectEnd

SpecDialect == InitFailure /\ [][NextDialect]_vars

\* C30: in both dialects every assistant message in the log is at most as
\* long as the maximum message length and the truncation marker together.
C30_AssistantWithinLimit ==
    \A n \in 1..Len(messages) :
        messages[n].role = "assistant" =>
            Len(messages[n].content) <= MAX_MESSAGE_LENGTH + Len(RESPONSE_TRUNCATED)

\* One message was submitted: the foreground has appended nothing since the
\* thread began, and no other thread writes.
Undisturbed == Len(threads) = 1

\* What does hold: the bound on every message that a stream has written.
StreamedWithinLimit ==
    \A i \in 1..Len(threads) :
        (Undisturbed /\ threads[i].pc = "stream" /\ threads[i].full_response # <<>>) =>
            /\ messages[Len(messages)] = Message("assistant", threads[i].full_response)
            /\ Len(threads[i].full_response) <= MAX_MESSAGE_LENGTH + Len(RESPONSE_TRUNCATED)

\* The step is a step of a thread on what the network delivered.
Delivered(kinds) == last'.op = "thread" /\ last'.event \in kinds

\* What the log holds of the response of thread i: nothing before the first
\* delta, the content of the last message afterwards.
Received(i) ==
    IF threads[i].full_response = <<>> THEN <<>> ELSE messages[Len(messages)].content

\* The delta is appended: the last message becomes the assistant message of
\* what was received and the delta, while that is within the maximum length.
DeltaAppended ==
    (Delivered({"content"}) /\ Undisturbed) =>
        LET text == Received(last'.thread) \o last'.content
        IN  Len(text) <= MAX_MESSAGE_LENGTH =>
                messages' = [messages EXCEPT ![Len(messages)] = Message("assistant", text)]

\* A chunk without content or a line that is not JSON, after which the
\* stream goes on, leaves the log as it is.
ChunkSkipped ==
    (Delivered({"no_content", "not_json"}) /\ threads'[last'.thread].pc = "stream") =>
        messages' = messages

NullContentEndsStream ==
    [][Delivered({"none_content"}) =>
          /\ threads'[last'.thread].pc = "done"
          /\ Len(messages') > Len(messages)
          /\ messages'[Len(messages')].role = "system"]_vars

-----------------------------------------------------------------------------
(* SpecLive: requests under fair scheduling.  Up to two messages are         *)
(* submitted, the second while the request of the first may still run; every *)
(* thread that has a step to take takes one, and every stream that is open   *)
(* ends: by the end marker, by its closure or by a failure.                  *)

MaxLiveTyped == 1       \* longest text typed into the main buffer (SpecLive)
MaxLiveSends == 2       \* messages submitted (SpecLive)
MaxLiveLog == 3 + 3 * MaxLiveSends + 1

\* "considering": two deltas pass the maximum
LiveDeltas == { <<99, 111, 110, 115, 105, 100, 101, 114, 105, 110, 103>> }

LiveType ==
    /\ ~command_mode
    /\ KeyPress(97, <<>>, NoEnv, MaxLiveTyped, MaxLiveSends, MaxLiveLog)

LiveSubmit ==
    /\ ~command_mode
    /\ KeyPress(K_RETURN, <<>>, NoEnv, MaxLiveTyped, MaxLiveSends, MaxLiveLog)

\* Thread i makes its request and has the answer to it.
LiveRequest(i) ==
    \/ \E outcome \in {"ok", "api_error", "error"} : OpenAICreate(i, outcome)
    \/ CurlPost(i)
    \/ \E k \in {"ok", "refused", "status", "bad_json", "no_choices", "no_message"} :
           CurlResponse(i, Chunk(k, <<104, 105>>, FALSE))

\* The stream of thread i delivers a delta, or something that is none.
LiveDelta(i) ==
    \/ \E d \in LiveDeltas : OpenAIChunk(i, Chunk("content", d, FALSE))
    \/ OpenAIChunk(i, Chunk("no_content", <<>>, FALSE))
    \/ \E d \in LiveDeltas : CurlLine(i, Chunk("content", d, FALSE))
    \/ \E k \in {"not_json", "no_content"} : CurlLine(i, Chunk(k, <<>>, FALSE))

\* The exchange of thread i ends.
LiveEnd(i) ==
    \/ \E k \in {"none_content", "error", "end"} : OpenAIChunk(i, Chunk(k, <<>>, FALSE))
    \/ \E d \in LiveDeltas : CurlLine(i, Chunk("content", d, TRUE))
    \/ CurlLine(i, Chunk("no_content", <<>>, TRUE))
    \/ \E k \in {"none_content", "error", "end"} : CurlLine(i, Chunk(k, <<>>, FALSE))

LiveRequests == \E i \in 1..MaxLiveSends : LiveRequest(i)
LiveStreams == \E i \in 1..MaxLiveSends : LiveDelta(i)
LiveEnds == \E i \in 1..MaxLiveSends : LiveEnd(i)

NextLive == LiveType \/ LiveSubmit \/ LiveRequests \/ LiveStreams \/ LiveEnds

\* Threads are scheduled (threading.Thread(...).start() of lines 1448-1459), and the
\* network ends every exchange.
LiveFairness ==
    \A i \in 1..MaxLiveSends : WF_vars(LiveRequest(i)) /\ WF_vars(LiveEnd(i))

SpecLive == InitFailure /\ [][NextLive]_vars /\ LiveFairness

\* The i-th message was submitted.
Submitted(i) == Len(threads) >= i

\* The place of the placeholder of the i-th message: behind the i-th user
\* message of the log, where send_message has appended it (line 1441).
PlaceholderOf(i) ==
    LET users == {n \in 1..Len(messages) : messages[n].role = "user"}
    IN  1 + CHOOSE n \in users : Cardinality({m \in users : m <= n}) = i

\* Thread i has just written the response, or a part of it, over the
\* placeholder of its message.
OverwroteOwn(i) ==
    /\ Submitted(i)
    /\ last.op = "thread" /\ last.thread = i
    /\ last.event = "content" \/ (last.event = "ok" /\ threads[i].pc = "done")
    /\ PlaceholderOf(i) = Len(messages)
    /\ messages[Len(messages)].role = "assistant"
    /\ messages[Len(messages)].content # THINKING

\* What ends a request with a notice whatever was received.
Failures ==
    {"api_error", "error", "refused", "status", "bad_json", "no_choices", "no_message",
     "none_content"}

\* Thread i has just ended with a notice: of a failure, or of no response.
AppendedNotice(i) ==
    /\ Submitted(i)
    /\ last.op = "thread" /\ last.thread = i
    /\ threads[i].pc = "done"
    /\ last.event \in Failures \/ (threads[i].full_response = <<>> /\ last.event # "ok")

\* Thread i has ended.
Terminated(i) == Submitted(i) /\ threads[i].pc = "done"

\* C27: under fair scheduling and a network that ends every exchange, every
\* submitted message leads to its placeholder being overwritten with the
\* response or to a notice being appended, and its thread ends.
C27_EveryMessageAnswered ==
    \A i \in 1..MaxLiveSends :
        <>Submitted(i) => (<>(OverwroteOwn(i) \/ AppendedNotice(i)) /\ <>Terminated(i))

\* What does hold: every thread ends.
EveryThreadEnds == \A i \in 1..MaxLiveSends : <>Submitted(i) => <>Terminated(i)

\* What does hold: a message that stays the only one submitted is answered.
OnlyMessageAnswered ==
    <>Submitted(1) => (<>Submitted(2) \/ <>(OverwroteOwn(1) \/ AppendedNotice(1)))

\* The two state predicates say what the step has done: a notice is behind
\* the log exactly when the thread has appended one, and the placeholder is
\* written when the thread has put its own response in its place.
AnswerObserved ==
    [][\A i \in 1..MaxLiveSends :
           last'.op = "thread" /\ last'.thread = i =>
               /\ AppendedNotice(i)' <=>
                      /\ Len(messages') > Len(messages)
                      /\ messages'[Len(messages')].role = "system"
               /\ OverwroteOwn(i)' =>
                      /\ PlaceholderOf(i) = Len(messages)
                      /\ Len(messages') = Len(messages)
                      /\ messages'[Len(messages')].content =
                             IF last'.event = "ok" THEN last'.content
                             ELSE threads'[i].full_response]_vars

\* Thread i has assigned the last message on this step: a delta of a stream,
\* or the body of the single-shot dialect.
Assigns(i) ==
    /\ last'.op = "thread" /\ last'.thread = i
    /\ last'.event = "content" \/ (last'.event = "ok" /\ threads'[i].pc = "done")

\* C31: with a second message submitted while an earlier request is in
\* flight, every thread writes its response into the placeholder that was
\* appended for its own submission and into no other message.
C31_WritesOwnPlaceholder ==
    [][\A i \in 1..MaxLiveSends : Assigns(i) => PlaceholderOf(i) = Len(messages)]_vars

\* What does hold: while one message only was submitted, its thread writes
\* into its own placeholder.
OnlyThreadWritesOwn ==
    [][(Assigns(1) /\ Undisturbed) => PlaceholderOf(1) = Len(messages)]_vars

-----------------------------------------------------------------------------
(* SpecSwitch: the provider switched under a request.  One message is        *)
(* submitted under any of the three profiles; while its thread lives the     *)
(* provider command is run and the selector answers any loaded profile or    *)
(* is cancelled; the thread makes its request and is answered.               *)

MaxSwitchTyped == 1     \* longest message typed (SpecSwitch)
MaxSwitches == 1        \* provider commands run (SpecSwitch)
SwitchThreads == {1}
MaxSwitchLog == 3 + 2 * Cardinality(SwitchThreads) + MaxSwitches + 2

\* The provider selector is cancelled, or answers one of the loaded profiles.
SwitchEnvs ==
    {NoEnv} \cup {[NoEnv EXCEPT !.selected_config = Some(LoadedConfigs[n])] :
                     n \in 1..Len(LoadedConfigs)}

SwitchType ==
    /\ ~command_mode
    /\ KeyPress(97, <<>>, NoEnv, MaxSwitchTyped, Cardinality(SwitchThreads), MaxSwitchLog)

SwitchSubmit ==
    /\ ~command_mode
    /\ KeyPress(K_RETURN, <<>>, NoEnv, MaxSwitchTyped, Cardinality(SwitchThreads),
                MaxSwitchLog)

\* The control key, once a message is submitted.
SwitchEnterCommand ==
    /\ ~command_mode
    /\ threads # <<>>
    /\ KeyPress(K_CTRL_L, <<>>, NoEnv, MaxSwitchTyped, Cardinality(SwitchThreads),
                MaxSwitchLog)

\* p
SwitchTypeCommand ==
    /\ command_mode
    /\ KeyPress(112, <<>>, NoEnv, 1, Cardinality(SwitchThreads), MaxSwitchLog)

SwitchRun ==
    /\ command_mode
    /\ Notices(messages) < 3 + MaxSwitches
    /\ \E env \in SwitchEnvs :
           KeyPress(K_RETURN, <<>>, env, 1, Cardinality(SwitchThreads), MaxSwitchLog)

SwitchRequest ==
    \E i \in SwitchThreads :
        \/ \E outcome \in {"ok", "api_error"} : OpenAICreate(i, outcome)
        \/ CurlPost(i)
        \/ \E k \in {"ok", "refused", "bad_json"} :
               CurlResponse(i, Chunk(k, <<104, 105>>, FALSE))

SwitchStream ==
    \E i \in SwitchThreads :
        \/ \E k \in {"content", "end"} : OpenAIChunk(i, Chunk(k, THINKING, FALSE))
        \/ \E k \in {"content", "end"} : CurlLine(i, Chunk(k, THINKING, FALSE))

NextSwitch ==
    \/ SwitchType
    \/ SwitchSubmit
    \/ SwitchEnterCommand
    \/ SwitchTypeCommand
    \/ SwitchRun
    \/ SwitchRequest
    \/ SwitchStream

SpecSwitch == InitFailure /\ [][NextSwitch]_vars

\* The profile that was active when the message was submitted: the provider
\* is switched after the submission only, so it is the profile the session
\* started with, which line 1681 has put in front of configs.
SubmittedUnder == configs[1]

\* Thread i takes a step that reads the profile: the request of
\* send_openai_request (lines 1230-1236), the request of send_curl_request
\* (lines 1269-1297), or the choice of the dialect (line 1306).
ReadsProfile(i) ==
    /\ last'.op = "thread" /\ last'.thread = i
    /\ threads[i].pc \in {"start", "posted"}

\* C32: a thread sends its request and reads the response with the profile
\* that was active when its message was submitted, whatever the provider is
\* switched to meanwhile.
C32_ProfileOfSubmission ==
    [][\A i \in SwitchThreads : ReadsProfile(i) => current_config = SubmittedUnder]_vars

\* What does hold: the function that makes the request is the one of the
\* profile of the submission (lines 1446-1459).
TargetOfSubmission ==
    \A i \in 1..Len(threads) :
        threads[i].target =
            IF SubmittedUnder.request_type = "curl" THEN "send_curl_request"
            ELSE "send_openai_request"

\* The request was posted for a stream and the answer is read as one body:
\* the provider was switched to the single-shot profile between the two.
StreamReadAsBody ==
    /\ threads # <<>> /\ threads[1].pc = "done"
    /\ threads[1].request # NoneVal /\ ~threads[1].request[1].is_infini
    /\ last.op = "thread" /\ last.event = "ok"

\* C33: no list of messages handed to the network client holds an assistant
\* message whose content is the placeholder text.
C33_NoPlaceholderSent ==
    \A i \in 1..Len(threads) :
        \A n \in 1..Len(threads[i].messages_to_send) :
            threads[i].messages_to_send[n] # Message("assistant", THINKING)

\* The first exchange has failed or ended without a response, its notice is
\* in the log, and the second submission hands its placeholder on.
PlaceholderSentAfterFailure ==
    /\ Len(threads) = 2
    /\ threads[1].pc = "done" /\ threads[1].full_response = <<>>
    /\ last.op = "key" /\ last.key = K_RETURN
    /\ messages[Len(messages) - 2].role = "system"
    /\ \E n \in 1..Len(threads[2].messages_to_send) :
           threads[2].messages_to_send[n] = Message("assistant", THINKING)

\* What does hold: the first list handed on holds the user's message only.
FirstListClean == threads # <<>> => threads[1].messages_to_send = <<Message("user", <<97>>)>>

-----------------------------------------------------------------------------
(* SpecLoad: conversations loaded, the provider switched, the log cleared.   *)
(* The session finds four files in HISTORY_DIR: a conversation saved under   *)
(* a loaded profile, one saved under a profile that config.txt no longer     *)
(* has, a file that is not JSON, and a conversation with a message that has  *)
(* no content.  A message is typed and submitted, a file is chosen with the  *)
(* file command, and the commands load (by name), provider and clear are     *)
(* pasted into the command line and run.  No request is answered.            *)

MaxLoadSends == 1       \* messages submitted (SpecLoad)
MaxLoadNotices == 4     \* notices in the log when a command is still begun (SpecLoad)
MaxLoadCommand == 3     \* longest command, in characters (SpecLoad)
MaxLoadTyped == 1       \* longest text typed, and longest text a tag is appended to (SpecLoad)
MaxLoadLog == MaxLoadNotices + 3 + 2 * MaxLoadSends

\* "/p": the file the selector answers
LoadPath == <<47, 112>>

\* m, z, x, k
LoadDir ==
    LET tagged == <<Message("user", Tag(LoadPath)), Message("assistant", <<104, 105>>)>>
        saved(provider, msgs) == SavedFile(0, Title(msgs), provider, <<109>>, msgs)
        m == saved(LoadedConfigs[2].name, tagged)
        z == saved(<<90>>, tagged)
        x == [saved(LoadedConfigs[2].name, tagged) EXCEPT !.valid = FALSE]
        k == saved(LoadedConfigs[2].name, <<Message("user", <<97>>), [role |-> "user"]>>)
    IN  WriteFile(WriteFile(WriteFile(WriteFile(<<>>, <<109>>, m), <<122>>, z),
                            <<120>>, x), <<107>>, k)

\* The names given to the load command: the four files, and q, which does
\* not exist.
LoadNames == {<<c>> : c \in {109, 122, 120, 107, 113}}

\* l <name> | p | f | cr
LoadCommands ==
    {<<108, 32>> \o name : name \in LoadNames} \cup {<<112>>, <<102>>, <<99, 114>>}

\* What the selectors answer: nothing, the second profile, the file /p.
LoadEnvs ==
    {NoEnv, [NoEnv EXCEPT !.selected_config = Some(LoadedConfigs[2])],
     [NoEnv EXCEPT !.selected_file = Some(LoadPath)]}

LoadType ==
    /\ ~command_mode
    /\ KeyPress(97, <<>>, NoEnv, MaxLoadTyped, MaxLoadSends, MaxLoadLog)

LoadSubmit ==
    /\ ~command_mode
    /\ KeyPress(K_RETURN, <<>>, NoEnv, MaxLoadCommand, MaxLoadSends, MaxLoadLog)

LoadEnterCommand ==
    /\ ~command_mode
    /\ Notices(messages) < MaxLoadNotices
    /\ KeyPress(K_CTRL_L, <<>>, NoEnv, MaxLoadCommand, MaxLoadSends, MaxLoadLog)

LoadPaste ==
    /\ command_mode
    /\ command_input = <<>>
    /\ \E command \in LoadCommands :
           KeyPress(Head(command), Tail(command), NoEnv,
                    MaxLoadCommand, MaxLoadSends, MaxLoadLog)

LoadQueued == KeyQueued(NoEnv, MaxLoadCommand, MaxLoadSends, MaxLoadLog)

LoadRun ==
    /\ command_mode
    /\ command_input # <<>>
    /\ \E env \in LoadEnvs :
           /\ (env.selected_file # NoneVal) = (command_input = <<102>>)
           /\ (env.selected_config # NoneVal) => (command_input = <<112>>)
           /\ KeyPress(KEY_ENTER, <<>>, env, MaxLoadTyped, MaxLoadSends, MaxLoadLog)

NextLoad ==
    \/ LoadType
    \/ LoadSubmit
    \/ LoadEnterCommand
    \/ LoadPaste
    \/ LoadQueued
    \/ LoadRun

InitLoad == \E n \in 1..2 : InitOn(LoadedConfigs[n], LoadDir)

SpecLoad == InitLoad /\ [][NextLoad]_vars

\* C34: in every state of a running session the active profile is one of the
\* profiles of the list loaded at startup.
C34_ActiveProfileLoaded ==
    running => \E n \in 1..Len(configs) : current_config = configs[n]

\* What does hold: the list of profiles is never changed, and the provider
\* command makes a profile of the list the active one.
ProfilesReadOnly ==
    [][/\ configs' = configs
       /\ (command_mode /\ command_input = <<112>> /\ current_config' # current_config)
              => \E n \in 1..Len(configs) : current_config' = configs[n]]_vars

\* The conversation of the profile that is not in the list was loaded.
LoadedUnknownProfile ==
    /\ running
    /\ current_config.name = <<90>>
    /\ Len(messages) >= 2 /\ messages[1] = Message("user", Tag(LoadPath))

\* The load command with a name is about to be run, and what the file of
\* that name is.
LoadNamed == command_mode /\ Len(command_input) = 3 /\ Take(command_input, 2) = <<108, 32>>
LoadTarget == <<command_input[3]>>

\* The load fails: the file does not exist, is not JSON, or holds a message
\* without content.
LoadFails ==
    /\ LoadNamed
    /\ \/ LoadTarget \notin DOMAIN history_dir
       \/ ~history_dir[LoadTarget].valid
       \/ \E n \in 1..Len(history_dir[LoadTarget].messages) :
              ~HasContent(history_dir[LoadTarget].messages[n])

\* Enter is the key of this step.
EnterStep == last'.op = "key" /\ IsEnter(last'.key)

\* C39: a load that fails appends exactly one notice and leaves the rest as
\* it was: the messages of the log, the active profile and the table of
\* placeholders; the session goes on.
C39_FailedLoadKeepsState ==
    [][(LoadFails /\ EnterStep) =>
          /\ Len(messages') = Len(messages) + 1
          /\ SubSeq(messages', 1, Len(messages)) = messages
          /\ messages'[Len(messages')].role = "system"
          /\ current_config' = current_config
          /\ file_placeholders' = file_placeholders
          /\ running']_vars

\* What does hold: the same of a file that does not exist or is not JSON.
UnreadLoadKeepsState ==
    [][(LoadFails /\ EnterStep /\
        (LoadTarget \in DOMAIN history_dir => ~history_dir[LoadTarget].valid)) =>
          /\ Len(messages') = Len(messages) + 1
          /\ SubSeq(messages', 1, Len(messages)) = messages
          /\ messages'[Len(messages')].role = "system"
          /\ current_config' = current_config
          /\ file_placeholders' = file_placeholders
          /\ running']_vars

\* The conversation with the message without content was loaded from a
\* session that held a message and a placeholder: the session has ended.
BrokenLoadEndsSession ==
    /\ ~running /\ escaped = "KeyError"
    /\ file_placeholders # <<>>
    /\ messages[2] = [role |-> "user"]

-----------------------------------------------------------------------------
(* SpecConfirm: the file selector on a disk with an empty directory.  The    *)
(* file command is run in the root, in /d or in the empty /e; the selector   *)
(* takes keys until it returns a file, is cancelled, or raises.              *)

MaxConfirmLog == 5      \* length of the log the foreground still appends to (SpecConfirm)

ConfirmDirs == WorkingDirs \cup {ROOT \o <<101>>}

ConfirmEnterCommand ==
    /\ ~command_mode
    /\ KeyPress(K_CTRL_L, <<>>, NoEnv, 1, 0, MaxConfirmLog)

\* f
ConfirmTypeCommand ==
    /\ command_mode
    /\ KeyPress(102, <<>>, NoEnv, 1, 0, MaxConfirmLog)

\* Enter runs the file command, which calls select_file_tui (line 1036).
ConfirmOpen ==
    /\ running
    /\ command_mode
    /\ command_input # <<>>
    /\ selector = NoneVal
    /\ pending = <<>>
    /\ \E cwd \in ConfirmDirs, height \in 4..MaxHeight :
           selector' = Some(OpenSelector(Self, command_input, cwd, height))
    /\ UNCHANGED <<messages, input_history, history_index, current_input, cursor_pos,
                   file_placeholders, command_mode, command_input, command_cursor_pos,
                   saved_input, saved_cursor_pos, current_config, configs, threads, args,
                   history_dir, pending, now, last_redraw_time, drawn, running, escaped,
                   last, entry>>

\* A key on which the selector raises: the exception leaves select_file_tui,
\* handle_command and the loop of chat_ui.
ConfirmRaises ==
    /\ running
    /\ selector # NoneVal
    /\ \E key \in SelectorKeys :
           LET sel == SelectorKey(selector[1], key)
           IN  /\ sel.done
               /\ sel.exc # NoExc
               /\ escaped' = sel.exc
               /\ last' = Observed("key", key, 0, "none", <<>>)
    /\ running' = FALSE
    /\ selector' = NoneVal
    /\ UNCHANGED <<messages, input_history, history_index, current_input, cursor_pos,
                   file_placeholders, command_mode, command_input, command_cursor_pos,
                   saved_input, saved_cursor_pos, current_config, configs, threads, args,
                   history_dir, pending, now, last_redraw_time, drawn, entry>>

NextConfirm ==
    \/ ConfirmEnterCommand
    \/ ConfirmTypeCommand
    \/ ConfirmOpen
    \/ SelectorStep
    \/ SelectorReturn
    \/ ConfirmRaises

SpecConfirm == InitSelector /\ [][NextConfirm]_vars

\* The file selector is open.
FileSelectorOpen == selector # NoneVal /\ Open.kind = "file"

\* C35: whenever the file selector takes Enter or the right arrow, the
\* selected index is the index of an entry of the listing, and the key
\* enters a directory or returns a file without raising.
C35_ConfirmNeverFails ==
    FileSelectorOpen =>
        /\ Open.selected_index < Len(Open.entries)
        /\ \A key \in {KEY_RIGHT, K_NEWLINE} : select_file_tui(Open, key).exc = NoExc

\* What does hold: the same in every directory that has an entry.
ConfirmInListedDirectory ==
    (FileSelectorOpen /\ Open.entries # <<>>) =>
        /\ Open.selected_index < Len(Open.entries)
        /\ \A key \in {KEY_RIGHT, K_NEWLINE} : select_file_tui(Open, key).exc = NoExc

\* Enter in the empty directory, reached from the root, has ended the
\* session.
ConfirmEndedSession ==
    /\ ~running /\ escaped = "IndexError"
    /\ last.op = "key" /\ last.key = K_NEWLINE

-----------------------------------------------------------------------------
(* The codes the look-ahead takes from the queue (lines 872-901, 986-1015).  *)

\* The codes queued behind a key that are no longer queued after it.
Consumed(key, ahead) ==
    SubSeq(ahead, 1, Len(ahead) - Len(AfterKey(key, ahead).pending))

\* The text the key has put into the active buffer.
Typed(key, ahead) ==
    InsertedText(ActiveText(Self), ActiveCursor(Self), ActiveText(AfterKey(key, ahead)))

\* The text inserted is the decoding of the key and every code consumed.
AllContribute(key, ahead) ==
    Consumed(key, ahead) # <<>> =>
        /\ key <= 255
        /\ \A i \in 1..Len(Consumed(key, ahead)) : Consumed(key, ahead)[i] <= 255
        /\ Utf8Decode(<<key>> \o Consumed(key, ahead)) = Some(Typed(key, ahead))

\* C36: every key code consumed by the look-ahead of the decoder
\* contributes to the text the decoder inserts; when the collected codes do
\* not decode, or the lead code is above 255, no queued code that the
\* look-ahead has read is lost.
C36_NoCodeLost ==
    \A key \in DecodeKeys, ahead \in DecodeAheads :
        (running /\ key # 0) => AllContribute(key, ahead)

\* What does hold: when the collected bytes decode, every code consumed is
\* part of the text inserted, and a key up to 127 consumes nothing.
DecodedCodesKept ==
    \A key \in DecodeKeys, ahead \in DecodeAheads :
        /\ (running /\ key > 127 /\ key <= 255 /\ Collected(key, ahead) = <<key>> \o Consumed(key, ahead)
                /\ Utf8Decode(Collected(key, ahead)) # NoneVal)
              => AllContribute(key, ahead)
        /\ (running /\ key # 0 /\ key <= 127) => Consumed(key, ahead) = <<>>

\* The losses: a letter behind a lead byte, the bytes behind a byte that
\* leads nothing, the bytes behind a function key, and a function key
\* behind a lead byte are taken from the queue and not inserted.
CodesLost ==
    running =>
        /\ Consumed(LeadByte, <<97>>) = <<97>> /\ Typed(LeadByte, <<97>>) = <<LeadByte>>
        /\ Consumed(255, <<169, 97>>) = <<169, 97>> /\ Typed(255, <<169, 97>>) = <<255>>
        /\ Consumed(265, <<130, 172>>) = <<130, 172>> /\ Typed(265, <<130, 172>>) = <<>>
        /\ Consumed(LeadByte, <<265>>) = <<265>> /\ Typed(LeadByte, <<265>>) = <<LeadByte>>

-----------------------------------------------------------------------------
(* SpecClear: the placeholder table.  A letter or a space is typed, Enter   *)
(* is pressed on a blank buffer and on one that is submitted, the            *)
(* file command appends the tag of a file to the text set aside,             *)
(* and the commands clear and load (of a conversation that names one file,  *)
(* saved under the second profile) are pasted into the command line and      *)
(* run.  No request is answered.                                             *)

\* The one message that is submitted starts the one thread.
ClearThreads == {1}
MaxClearNotices == 4    \* notices in the log when a command is still begun (SpecClear)
MaxClearTyped == 1      \* longest text typed, and longest text a tag is appended to (SpecClear)
MaxClearCommand == 3    \* longest command, in characters (SpecClear)
MaxClearLog == MaxClearNotices + 3 + 2 * Cardinality(ClearThreads)

\* The conversation m, whose user message is the tag of /p.
ClearDir ==
    LET tagged == <<Message("user", Tag(LoadPath)), Message("assistant", <<104, 105>>)>>
    IN  WriteFile(<<>>, <<109>>,
                  SavedFile(0, Title(tagged), LoadedConfigs[2].name, <<109>>, tagged))

\* f | cr | l m
ClearCommands == {<<102>>, <<99, 114>>, <<108, 32, 109>>}

\* What the file selector answers: nothing, or /n.
ClearEnvs == {NoEnv} \cup {[NoEnv EXCEPT !.selected_file = Some(q)] : q \in Paths}

ClearType ==
    /\ ~command_mode
    /\ \E key \in {97, 32} :
           KeyPress(key, <<>>, NoEnv, MaxClearTyped, Cardinality(ClearThreads), MaxClearLog)

\* Enter on a blank buffer, which is not counted as a submission.
ClearBlank ==
    /\ ~command_mode
    /\ IsBlank(current_input)
    /\ KeyPress(K_RETURN, <<>>, NoEnv, MaxClearTyped, Cardinality(ClearThreads) + 1, MaxClearLog)

ClearSubmit ==
    /\ ~command_mode
    /\ KeyPress(K_RETURN, <<>>, NoEnv, MaxClearTyped, Cardinality(ClearThreads), MaxClearLog)

ClearEnterCommand ==
    /\ ~command_mode
    /\ Notices(messages) < MaxClearNotices
    /\ KeyPress(K_CTRL_L, <<>>, NoEnv, MaxClearTyped, Cardinality(ClearThreads), MaxClearLog)

ClearPaste ==
    /\ command_mode
    /\ command_input = <<>>
    /\ \E command \in ClearCommands :
           KeyPress(Head(command), Tail(command), NoEnv,
                    MaxClearCommand, Cardinality(ClearThreads), MaxClearLog)

ClearQueued == KeyQueued(NoEnv, MaxClearCommand, Cardinality(ClearThreads), MaxClearLog)

ClearRun ==
    /\ command_mode
    /\ command_input # <<>>
    /\ pending = <<>>
    /\ \E env \in ClearEnvs :
           /\ (env.selected_file # NoneVal) => (command_input = <<102>>)
           /\ KeyPress(KEY_ENTER, <<>>, env, MaxClearTyped, Cardinality(ClearThreads), MaxClearLog)

NextClear ==
    \/ ClearType
    \/ ClearBlank
    \/ ClearSubmit
    \/ ClearEnterCommand
    \/ ClearPaste
    \/ ClearQueued
    \/ ClearRun

InitClear == InitOn(LoadedConfigs[1], ClearDir)

SpecClear == InitClear /\ [][NextClear]_vars

\* The step is Enter on the command line, which holds a command that
\* handle_command takes for clear / for load.
RunsCommand == command_mode /\ last'.op = "key" /\ IsEnter(last'.key)
RunsClear ==
    /\ RunsCommand
    /\ ~StartsWith(command_input, <<102>>) /\ ~StartsWith(command_input, <<112>>)
    /\ StartsWith(command_input, <<99, 108, 101, 97, 114>>)
           \/ StartsWith(command_input, <<99, 114>>)
RunsLoad ==
    /\ RunsCommand
    /\ ~StartsWith(command_input, <<102>>) /\ ~StartsWith(command_input, <<112>>)
    /\ ~StartsWith(command_input, <<99, 114>>) /\ ~StartsWith(command_input, <<115>>)
    /\ StartsWith(command_input, <<108>>)

\* The tags of a placeholder table.
TagsOf(table) == {table[n][1] : n \in 1..Len(table)}

\* After clear the log is the clear notice alone and the table is empty;
\* the submitted texts, the recall index and the active profile are as
\* before, and the text set aside is back in the main buffer.
ClearedAll ==
    RunsClear =>
        /\ messages' = <<Message("system", HISTORY_CLEARED)>>
        /\ file_placeholders' = <<>>
        /\ input_history' = input_history
        /\ history_index' = history_index
        /\ current_input' = saved_input /\ cursor_pos' = saved_cursor_pos
        /\ current_config' = current_config
        /\ running'

\* A step that takes a tag out of the table is clear or load.
RemovedByClearOrLoad ==
    (TagsOf(file_placeholders) \ TagsOf(file_placeholders') # {}) => (RunsClear \/ RunsLoad)

\* C37: after clear-conversation the log consists of exactly one system
\* notice, the clear notice, and the placeholder table is empty, while the
\* submitted texts, the recall index, the saved main buffer and the active
\* profile are unchanged; no operation other than clear and load removes an
\* entry of the placeholder table.
C37_ClearFrame == [][ClearedAll /\ RemovedByClearOrLoad]_vars

\* Clear has emptied a table that held a tag: the tag is still in the main
\* buffer, after a message had been submitted and the profile of a loaded
\* conversation made the active one.
C37_Witness ==
    /\ last.op = "key" /\ IsEnter(last.key) /\ last.command_mode
    /\ messages = <<Message("system", HISTORY_CLEARED)>>
    /\ file_placeholders = <<>>
    /\ \E q \in Paths : current_input = <<97, 32>> \o Tag(q)
    /\ input_history # <<>>
    /\ current_config = LoadedConfigs[2]

\* Load has replaced the table: the tag of /n is in the main buffer and the
\* table holds the tag of /p alone.
LoadReplacedTable ==
    /\ last.op = "key" /\ IsEnter(last.key) /\ last.command_mode
    /\ \E q \in Paths : current_input = Tag(q)
    /\ TagsOf(file_placeholders) = {Tag(LoadPath)}

-----------------------------------------------------------------------------
(* The file command (lines 1034-1054) and the return to Normal mode.         *)

\* The file command is on the command line, about to be run.
FileCommandEntered ==
    running /\ command_mode /\ pending = <<>> /\ StartsWith(command_input, <<102>>)

\* The session after Enter, with the answer env of the file selector.
AfterFileCommand(env) == process_input(Self, KEY_ENTER, env)

\* "{{:F" f "}}"
TagText(f) == <<123, 123, 58, 70>> \o f \o <<125, 125>>

\* The selector returned f: the main buffer is the text set aside, a space
\* and the tag (the tag alone after an empty text), the cursor is at its
\* end, and the table maps the tag to f and keeps its other entries.
FileTagged(after, f) ==
    /\ ~after.command_mode
    /\ after.current_input = IF saved_input = <<>> THEN TagText(f)
                             ELSE saved_input \o <<32>> \o TagText(f)
    /\ after.cursor_pos = Len(after.current_input)
    /\ \E n \in 1..Len(after.file_placeholders) :
           after.file_placeholders[n] = <<TagText(f), f>>
    /\ \A n \in 1..Len(after.file_placeholders) :
           after.file_placeholders[n][1] = TagText(f)
               => after.file_placeholders[n][2] = f
    /\ \A n \in 1..Len(file_placeholders) :
           file_placeholders[n][1] # TagText(f) =>
               \E k \in 1..Len(after.file_placeholders) :
                   after.file_placeholders[k] = file_placeholders[n]

\* The selector was cancelled: buffer, cursor and table as they were when
\* the command line was opened.
FileCancelled(after) ==
    /\ ~after.command_mode
    /\ after.current_input = saved_input
    /\ after.cursor_pos = saved_cursor_pos
    /\ after.file_placeholders = file_placeholders
    /\ entry # NoneVal
    /\ after.current_input = entry[1].current_input
    /\ after.cursor_pos = entry[1].cursor_pos

\* C38: when the file command is submitted with the main buffer s set aside
\* and the selector returns the file f, the main buffer in Normal mode is s,
\* a space and the tag {{:Ff}} (the tag alone when s is empty), the cursor
\* is at the end of the buffer and the placeholder table maps the tag to f;
\* when the selector is cancelled, main buffer, cursor and table are as
\* before the command.
C38_FileTagAppended ==
    FileCommandEntered =>
        \A env \in ClearEnvs :
            /\ AfterFileCommand(env).exc = NoExc
            /\ env.selected_file # NoneVal
                   => FileTagged(AfterFileCommand(env), env.selected_file[1])
            /\ env.selected_file = NoneVal => FileCancelled(AfterFileCommand(env))

\* The file command has put the tag of /n behind the letter typed before.
C38_Witness ==
    /\ last.op = "key" /\ IsEnter(last.key) /\ last.command_mode
    /\ ~command_mode
    /\ \E q \in Paths :
           /\ current_input = <<97, 32>> \o TagText(q)
           /\ file_placeholders = <<<<TagText(q), q>>>>
    /\ cursor_pos = Len(current_input)

\* The file command was cancelled with a table that holds a tag: the letter
\* typed before is the main buffer, the cursor behind it.
FileCommandCancelled ==
    /\ last.op = "key" /\ IsEnter(last.key) /\ last.command_mode
    /\ ~command_mode
    /\ current_input = <<97>> /\ cursor_pos = 1
    /\ file_placeholders # <<>>

-----------------------------------------------------------------------------
(* Enter on a blank main buffer (lines 803-806, 1375-1378).                  *)

\* The characters str.strip() removes, of those a key can type.
Whitespace == {9, 10, 11, 12, 13, 32}

\* The step is Enter in Normal mode on a main buffer that is empty or holds
\* whitespace only.
BlankEnter ==
    /\ ~command_mode
    /\ last'.op = "key" /\ IsEnter(last'.key)
    /\ \A i \in 1..Len(current_input) : current_input[i] \in Whitespace

\* C40: Enter in Normal mode on a main buffer that is empty or holds only
\* whitespace changes nothing: the log, the submitted texts, the recall
\* index, the main buffer and its cursor are as before, and no thread is
\* started.
C40_BlankEnterNoOp ==
    [][BlankEnter =>
           /\ UNCHANGED <<messages, input_history, history_index, current_input,
                          cursor_pos, threads, file_placeholders, current_config>>
           /\ ~command_mode' /\ running']_vars

\* Enter was pressed on a buffer of one space, after a message had been
\* submitted: the space is still the main buffer and one thread exists.
C40_Witness ==
    /\ last.op = "key" /\ IsEnter(last.key) /\ ~last.command_mode
    /\ ~command_mode
    /\ current_input = <<32>> /\ cursor_pos = 1
    /\ Len(input_history) = 1
    /\ Len(threads) = 1

====
